---- MODULE Spec2Model ----
(***************************************************************************)
(* Push-to-talk transcription overlay: the background controller           *)
(* (background.ts), the in-game overlay controller (in_game.ts and the     *)
(* message-driven revision of it), the message bus between them, the       *)
(* transcription service and the clipboard/keystroke injection.            *)
(*                                                                         *)
(* Each process is single threaded and runs a handler to completion; an    *)
(* action below is one handler, or one resumption of an async function     *)
(* after an await, or one timer callback.                                  *)
(***************************************************************************)
EXTENDS Integers, Sequences, FiniteSets, Bags, TLC

\* ------------------------------------------------------------------ bounds

\* recorder/stream objects that may exist at once in one process
MaxSessions == 2
\* getUserMedia promises that may be pending at once in one process
MaxAcquiring == 2
\* 5-second timers that may be armed at once in one process
MaxTimers == 2
\* calls of injectTextIntoLoL in one run
MaxInjections == 2
\* messages in flight towards one window
MaxInFlight == 2
\* accepts the coordinator processes in a run that also records
MaxAccepts == 1

\* ------------------------------------------------------------------ text

\* A string is a sequence of characters; " " is the whitespace character.
\* Null stands for null/undefined: a value that is no string.
Null == <<"null">>

IsSpace(c) == c = " "

RECURSIVE TrimStart(_)
TrimStart(s) ==
  IF s = <<>> THEN <<>>
  ELSE IF IsSpace(Head(s)) THEN TrimStart(Tail(s)) ELSE s

RECURSIVE TrimEnd(_)
TrimEnd(s) ==
  IF s = <<>> THEN <<>>
  ELSE IF IsSpace(s[Len(s)]) THEN TrimEnd(SubSeq(s, 1, Len(s) - 1)) ELSE s

\* String.prototype.trim
Trim(s) == TrimEnd(TrimStart(s))

\* JavaScript truthiness of a string-or-null value
Truthy(s) == s # Null /\ s # <<>>

\* x || ''
OrEmpty(s) == IF Truthy(s) THEN s ELSE <<>>

\* what the transcription service may put in the "transcription" field
ResponseTexts == { <<"a">>, <<"b">>, Null }

\* what another application may leave on the system clipboard
ForeignClips == { <<"x">>, <<>> }

\* ------------------------------------------------------------------ state

VARIABLES
  bgVersion,              \* which revision of the background controller runs
  igVersion,              \* which revision of the in-game controller runs
  bg_mediaRecorder,       \* BackgroundController.mediaRecorder (0 is null)
  bg_currentStream,       \* BackgroundController.currentStream (0 is null)
  bgSessions,             \* the MediaRecorder/MediaStream objects of the background process
  bgAcquiring,            \* startRecording calls suspended at await getUserMedia
  bgTimers,               \* armed setTimeout(stopRecording, 5000) timers
  bg_lastTranscribedText, \* BackgroundController._lastTranscribedText
  toInGame,               \* messages sent to the in-game window, not yet received
  toBackground,           \* messages sent to the background window, not yet received
  injections,             \* the calls of injectTextIntoLoL and where each stands
  clipboard,              \* the system clipboard
  overlayDisplay,         \* style.display of #transcription-overlay
  textContent,            \* textContent of #transcribed-text
  windowState,            \* state of the in-game window: "normal", "minimized" or "hidden"
  ig_lastTranscribedText, \* InGame._lastTranscribedText
  debugDisplay,           \* style.display of #debug-overlay
  ig_mediaRecorder,       \* InGame.mediaRecorder (0 is undefined)
  igSessions,             \* the MediaRecorder/MediaStream objects of the in-game process
  igAcquiring,            \* in-game start calls suspended at await getUserMedia, by mode
  igTimers,               \* armed 5-second timers of InGame.startRecording
  pendingKeys,            \* hotkey events dispatched to a process, not yet handled
  held,                   \* the push_to_talk key is down (the last onHold event was 'down')
  bg_instance,            \* BackgroundController._instance (0 is undefined)
  bgConstructions,        \* runs of the BackgroundController constructor in this process
  bgListeners,            \* registrations of each listener by the background process
  bgReturned,             \* the objects the calls of BackgroundController.instance() returned
  ig_instance,            \* InGame._instance (0 is undefined)
  igConstructions,        \* runs of the InGame constructor in this process
  igListeners,            \* registrations of each listener by the in-game process
  igReturned              \* the objects the calls of InGame.instance() returned

captureVars == <<bg_mediaRecorder, bg_currentStream, bgSessions, bgAcquiring, bgTimers>>
injectVars == <<injections, clipboard>>
overlayVars == <<overlayDisplay, textContent, windowState, ig_lastTranscribedText, debugDisplay>>
igCaptureVars == <<ig_mediaRecorder, igSessions, igAcquiring, igTimers>>
versionVars == <<bgVersion, igVersion>>
singletonVars == <<bg_instance, bgConstructions, bgListeners, bgReturned,
                   ig_instance, igConstructions, igListeners, igReturned>>
processVars == <<versionVars, singletonVars>>
keyVars == <<pendingKeys, held>>

vars == <<processVars, captureVars, bg_lastTranscribedText, toInGame, toBackground,
          injectVars, overlayVars, igCaptureVars, keyVars>>

\* The revisions of the two controllers found in the repository.
BgLive == "background.ts"
BgSendText == "part_002"
IgLive == "in_game.ts"
IgListener == "part_000"
IgChat == "part_001"

\* ------------------------------------------------------------------ recorder objects

\* One slot holds a MediaRecorder together with the MediaStream it was built on.
\*   rec:   "recording" | "inactive"     MediaRecorder.state
\*   live:  the stream's tracks have not been stopped
\*   fetch: "none" | "blob" (dataavailable queued) | "inflight" (POST /transcribe pending)
FreeSlot == [rec |-> "free", live |-> FALSE, fetch |-> "none"]
Slots == 1..MaxSessions

FreeSlots(sessions) == { i \in Slots : sessions[i] = FreeSlot }
NewSlot(sessions) == CHOOSE i \in FreeSlots(sessions) : \A j \in FreeSlots(sessions) : i <= j

Recording(sessions) == { i \in Slots : sessions[i].rec = "recording" }

\* new MediaRecorder(stream); recorder.start()
NewRecorder == [rec |-> "recording", live |-> TRUE, fetch |-> "none"]

\* MediaRecorder.stop(): the recorder becomes inactive and one dataavailable event is queued
StopRecorder(sessions, r) ==
  [sessions EXCEPT ![r].rec = "inactive", ![r].fetch = "blob"]

\* stream.getTracks().forEach(t => t.stop())
StopTracks(sessions, s) ==
  IF s = 0 THEN sessions ELSE [sessions EXCEPT ![s].live = FALSE]

\* this.mediaRecorder && this.mediaRecorder.state !== 'inactive'
RecorderActive(sessions, r) == r # 0 /\ sessions[r].rec # "inactive"

\* ------------------------------------------------------------------ messages

Msg(id, text) == [id |-> id, text |-> text]

Send(box, m) == box (+) SetToBag({m})
Receive(box, m) == box (-) SetToBag({m})
InFlight(box) == BagCardinality(box)
CanSend(box, n) == InFlight(box) + n <= MaxInFlight

\* ------------------------------------------------------------------ injection

\* One entry per call of injectTextIntoLoL:
\*   text:  the argument
\*   pc:    "rejected"  returned at the blank check
\*          "read"      clipboard written, the 200 ms timer before the read-back is armed
\*          "enter1"    read-back matched, the timer before the first Enter is armed
\*          "paste"     first Enter sent, the timer before Ctrl+V is armed
\*          "enter2"    Ctrl+V sent, the timer before the second Enter is armed
\*          "done"      second Enter sent
\*          "mismatch"  read-back differed, returned without a keystroke
\*   trace: the calls this injection made to overwolf.utils, in order
Call(fn, arg) == [fn |-> fn, arg |-> arg]

\* !text, without the trim
IsBlankNoTrim(text) == ~Truthy(text)

\* !text || text.trim() === ''
IsBlank(text) == ~Truthy(text) \/ Trim(text) = <<>>

\* !clipboardString, without the comparison
ClipboardEmptyOnly(clipboardString, text) == ~Truthy(clipboardString)

\* !clipboardString || clipboardString !== text
ClipboardMismatch(clipboardString, text) == ~Truthy(clipboardString) \/ clipboardString # text

\* injectTextIntoLoL(text), up to the first setTimeout
InjectTextIntoLoL(text) ==
  IF IsBlank(text)
  THEN /\ injections' = Append(injections,
            [text |-> text, pc |-> "rejected", trace |-> <<>>, by |-> "background"])
       /\ UNCHANGED clipboard
  ELSE /\ clipboard' = text
       /\ injections' = Append(injections,
            [text |-> text, pc |-> "read", trace |-> <<Call("placeOnClipboard", text)>>,
             by |-> "background"])

\* after a matching read-back: the timer before the first keystroke
AfterMatch == "enter1"

\* the first timer fires: getFromClipboard and its callback
InjReadBack(i) ==
  /\ i \in DOMAIN injections
  /\ injections[i].by = "background"
  /\ injections[i].pc = "read"
  /\ LET clipboardString == IF clipboard = <<>> THEN Null ELSE clipboard IN
     injections' = [injections EXCEPT
        ![i].trace = Append(@, Call("getFromClipboard", clipboardString)),
        ![i].pc = IF ClipboardMismatch(clipboardString, injections[i].text)
                  THEN "mismatch" ELSE AfterMatch]
  /\ UNCHANGED <<clipboard, processVars, captureVars, bg_lastTranscribedText, toInGame,
                 toBackground, overlayVars, igCaptureVars, keyVars>>

\* the three timers with the paste first
KeyAtPasteFirst(pc) == CASE pc = "enter1" -> <<"Ctrl+V">> [] pc = "paste" -> <<"Enter">>
                         [] pc = "enter2" -> <<"Enter">>

\* the key each of the three nested timers sends, and the step that follows it
KeyAt(pc) == CASE pc = "enter1" -> <<"Enter">> [] pc = "paste" -> <<"Ctrl+V">>
               [] pc = "enter2" -> <<"Enter">>
NextPc(pc) == CASE pc = "enter1" -> "paste" [] pc = "paste" -> "enter2" [] pc = "enter2" -> "done"

\* one of the three nested timers fires: sendKeyStroke
InjKeyStroke(i) ==
  /\ i \in DOMAIN injections
  /\ injections[i].by = "background"
  /\ injections[i].pc \in {"enter1", "paste", "enter2"}
  /\ injections' = [injections EXCEPT
        ![i].trace = Append(@, Call("sendKeyStroke", KeyAt(injections[i].pc))),
        ![i].pc = NextPc(injections[i].pc)]
  /\ UNCHANGED <<clipboard, processVars, captureVars, bg_lastTranscribedText, toInGame,
                 toBackground, overlayVars, igCaptureVars, keyVars>>

\* another application, or the game, replaces the content of the system clipboard
ForeignClipboardWrite(c) ==
  /\ clipboard # c
  /\ clipboard' = c
  /\ UNCHANGED <<injections, processVars, captureVars, bg_lastTranscribedText, toInGame,
                 toBackground, overlayVars, igCaptureVars, keyVars>>

\* ------------------------------------------------------------------ hotkeys

\* A key press is dispatched to every process that registered a listener for it;
\* each process handles its event in a step of its own.
BgKeys(v) ==
  IF v = BgLive THEN {"accept", "discard", "record", "ptt_down", "ptt_up", "debug"} ELSE {}
IgKeys(v) ==
  IF v \in {IgLive, IgChat}
  THEN {"accept", "discard", "record", "ptt_down", "ptt_up", "debug", "toggle"}
  ELSE {"debug", "toggle"}
KeyNames == {"accept", "discard", "record", "ptt_down", "ptt_up", "debug", "toggle"}

Listeners(k) ==
  (IF k \in BgKeys(bgVersion) THEN {<<"bg", k>>} ELSE {}) \cup
  (IF k \in IgKeys(igVersion) THEN {<<"ig", k>>} ELSE {})

\* the user presses (or, for push_to_talk, holds or releases) a key
PressKey(k) ==
  /\ pendingKeys = {}
  /\ Listeners(k) # {}
  /\ pendingKeys' = Listeners(k)
  /\ held' = (IF k = "ptt_down" THEN TRUE ELSE IF k = "ptt_up" THEN FALSE ELSE held)
  /\ UNCHANGED <<processVars, captureVars, bg_lastTranscribedText, toInGame, toBackground,
                 injectVars, overlayVars, igCaptureVars>>

Dispatched(p, k) == <<p, k>> \in pendingKeys
Handled(p, k) == pendingKeys' = pendingKeys \ {<<p, k>>} /\ UNCHANGED held

\* ------------------------------------------------------------------ background controller

\* a startRecording that also turns the request down while the overlay shows
StartRecordingUnlessShowing ==
  IF RecorderActive(bgSessions, bg_mediaRecorder) \/ overlayDisplay = "block"
  THEN UNCHANGED bgAcquiring
  ELSE /\ bgAcquiring < MaxAcquiring
       /\ bgAcquiring' = bgAcquiring + 1

\* startRecording(isPushToTalk), up to await getUserMedia
StartRecording ==
  IF RecorderActive(bgSessions, bg_mediaRecorder)
  THEN UNCHANGED bgAcquiring
  ELSE /\ bgAcquiring < MaxAcquiring
       /\ bgAcquiring' = bgAcquiring + 1

\* stopRecording() that hands an (empty) blob to the backend even when nothing records
StopRecordingEmitsWhenIdle ==
  IF RecorderActive(bgSessions, bg_mediaRecorder)
  THEN /\ bgSessions' = StopTracks(StopRecorder(bgSessions, bg_mediaRecorder), bg_currentStream)
       /\ bg_currentStream' = 0
       /\ bg_mediaRecorder' = 0
  ELSE /\ FreeSlots(bgSessions) # {}
       /\ bgSessions' = [bgSessions EXCEPT
             ![NewSlot(bgSessions)] = [rec |-> "inactive", live |-> FALSE, fetch |-> "blob"]]
       /\ UNCHANGED <<bg_mediaRecorder, bg_currentStream>>

\* stopRecording()
StopRecording ==
  IF bg_mediaRecorder = 0
  THEN UNCHANGED <<bg_mediaRecorder, bg_currentStream, bgSessions>>
  ELSE IF bgSessions[bg_mediaRecorder].rec = "inactive"
  THEN UNCHANGED <<bg_mediaRecorder, bg_currentStream, bgSessions>>
  ELSE /\ bgSessions' = StopTracks(StopRecorder(bgSessions, bg_mediaRecorder), bg_currentStream)
       /\ bg_currentStream' = 0
       /\ bg_mediaRecorder' = 0

\* startTimedRecording()
StartTimedRecording ==
  /\ StartRecording
  /\ bgTimers < MaxTimers
  /\ bgTimers' = bgTimers + 1

\* onAcceptClicked()
OnAcceptClicked ==
  /\ CanSend(toInGame, 1)
  /\ Len(injections) < MaxInjections
  /\ toInGame' = Send(toInGame, Msg("CLOSE_OVERLAY", Null))
  /\ InjectTextIntoLoL(bg_lastTranscribedText)

\* onDiscardClicked()
OnDiscardClicked ==
  /\ CanSend(toInGame, 1)
  /\ toInGame' = Send(toInGame, Msg("CLOSE_OVERLAY", Null))

\* startRecording resumes: getUserMedia resolved with a stream
BgMicrophoneAcquired ==
  /\ bgVersion = BgLive
  /\ bgAcquiring > 0
  /\ FreeSlots(bgSessions) # {}
  /\ LET s == NewSlot(bgSessions) IN
     /\ bg_currentStream' = s
     /\ bg_mediaRecorder' = s
     /\ bgSessions' = [bgSessions EXCEPT ![s] = NewRecorder]
  /\ bgAcquiring' = bgAcquiring - 1
  /\ UNCHANGED <<bgTimers, processVars, bg_lastTranscribedText, toInGame, toBackground,
                 injectVars, overlayVars, igCaptureVars, keyVars>>

\* a failure after the recorder was created and started, caught without cleaning up
BgMicrophoneRefusedHalfStarted ==
  /\ bgVersion = BgLive
  /\ bgAcquiring > 0
  /\ FreeSlots(bgSessions) # {}
  /\ bg_mediaRecorder' = NewSlot(bgSessions)
  /\ bgSessions' = [bgSessions EXCEPT
        ![NewSlot(bgSessions)] = [rec |-> "recording", live |-> FALSE, fetch |-> "none"]]
  /\ bgAcquiring' = bgAcquiring - 1
  /\ UNCHANGED <<bg_currentStream, bgTimers, processVars, bg_lastTranscribedText, toInGame,
                 toBackground, injectVars, overlayVars, igCaptureVars, keyVars>>

\* a catch block that hands an empty recording to the backend
BgMicrophoneRefusedEmitsBlob ==
  /\ bgVersion = BgLive
  /\ bgAcquiring > 0
  /\ FreeSlots(bgSessions) # {}
  /\ bgSessions' = [bgSessions EXCEPT
        ![NewSlot(bgSessions)] = [rec |-> "inactive", live |-> FALSE, fetch |-> "blob"]]
  /\ bgAcquiring' = bgAcquiring - 1
  /\ UNCHANGED <<bg_mediaRecorder, bg_currentStream, bgTimers, processVars,
                 bg_lastTranscribedText, toInGame, toBackground, injectVars, overlayVars,
                 igCaptureVars, keyVars>>

\* startRecording resumes: getUserMedia rejected (permission denied, device busy)
BgMicrophoneRefused ==
  /\ bgVersion = BgLive
  /\ bgAcquiring > 0
  /\ bgAcquiring' = bgAcquiring - 1
  /\ UNCHANGED <<bg_mediaRecorder, bg_currentStream, bgSessions, bgTimers, processVars,
                 bg_lastTranscribedText, toInGame, toBackground, injectVars, overlayVars,
                 igCaptureVars, keyVars>>

\* the callback of setTimeout(() => this.stopRecording(), 5000)
BgTimerFires ==
  /\ bgVersion = BgLive
  /\ bgTimers > 0
  /\ bgTimers' = bgTimers - 1
  /\ StopRecording
  /\ UNCHANGED <<bgAcquiring, processVars, bg_lastTranscribedText, toInGame, toBackground,
                 injectVars, overlayVars, igCaptureVars, keyVars>>

\* OWHotkeys.onHotkeyDown(kHotkeys.record)
BgRecordHotkey ==
  /\ Dispatched("bg", "record") /\ Handled("bg", "record")
  /\ StartTimedRecording
  /\ UNCHANGED <<bg_mediaRecorder, bg_currentStream, bgSessions, processVars,
                 bg_lastTranscribedText, toInGame, toBackground, injectVars, overlayVars,
                 igCaptureVars>>

\* onHold listener, push_to_talk 'down'
BgPushToTalkDown ==
  /\ Dispatched("bg", "ptt_down") /\ Handled("bg", "ptt_down")
  /\ StartRecording
  /\ UNCHANGED <<bg_mediaRecorder, bg_currentStream, bgSessions, bgTimers, processVars,
                 bg_lastTranscribedText, toInGame, toBackground, injectVars, overlayVars,
                 igCaptureVars>>

\* onHold listener, push_to_talk 'up'
BgPushToTalkUp ==
  /\ Dispatched("bg", "ptt_up") /\ Handled("bg", "ptt_up")
  /\ StopRecording
  /\ UNCHANGED <<bgAcquiring, bgTimers, processVars, bg_lastTranscribedText, toInGame,
                 toBackground, injectVars, overlayVars, igCaptureVars>>

\* OWHotkeys.onHotkeyDown(kHotkeys.accept)
BgAcceptHotkey ==
  /\ Dispatched("bg", "accept") /\ Handled("bg", "accept")
  /\ OnAcceptClicked
  /\ UNCHANGED <<processVars, captureVars, bg_lastTranscribedText, toBackground, overlayVars,
                 igCaptureVars>>

\* OWHotkeys.onHotkeyDown(kHotkeys.discard)
BgDiscardHotkey ==
  /\ Dispatched("bg", "discard") /\ Handled("bg", "discard")
  /\ OnDiscardClicked
  /\ UNCHANGED <<processVars, captureVars, bg_lastTranscribedText, toBackground, injectVars,
                 overlayVars, igCaptureVars>>

\* OWHotkeys.onHotkeyDown(kHotkeys.debug)
BgDebugHotkey ==
  /\ Dispatched("bg", "debug") /\ Handled("bg", "debug")
  /\ CanSend(toInGame, 1)
  /\ toInGame' = Send(toInGame, Msg("SHOW_DEBUG", Null))
  /\ UNCHANGED <<processVars, captureVars, bg_lastTranscribedText, toBackground, injectVars,
                 overlayVars, igCaptureVars>>

\* the onMessageReceived listener of background.ts: switch (message.id)
BgLiveListener(m) ==
  CASE m.id = "ACCEPT_CLICKED" ->
         /\ OnAcceptClicked
         /\ UNCHANGED captureVars
    [] m.id = "DISCARD_CLICKED" ->
         /\ OnDiscardClicked
         /\ UNCHANGED <<captureVars, injectVars>>
    [] m.id = "START_RECORDING" ->
         /\ StartTimedRecording
         /\ UNCHANGED <<bg_mediaRecorder, bg_currentStream, bgSessions, toInGame, injectVars>>
    [] m.id = "STOP_RECORDING" ->
         /\ StopRecording
         /\ UNCHANGED <<bgAcquiring, bgTimers, toInGame, injectVars>>
    [] OTHER ->
         UNCHANGED <<captureVars, toInGame, injectVars>>

\* the onMessageReceived listener of the part_002 revision: if (message.id === 'SEND_TEXT')
BgSendTextListener(m) ==
  IF m.id = "SEND_TEXT"
  THEN /\ Len(injections) < MaxInjections
       /\ InjectTextIntoLoL(OrEmpty(m.text))
       /\ UNCHANGED <<captureVars, toInGame>>
  ELSE UNCHANGED <<captureVars, toInGame, injectVars>>

BgListener(m) == IF bgVersion = BgLive THEN BgLiveListener(m) ELSE BgSendTextListener(m)

\* the message ids the listener of each background revision has a case for
BgHandles(v) ==
  IF v = BgLive
  THEN {"ACCEPT_CLICKED", "DISCARD_CLICKED", "START_RECORDING", "STOP_RECORDING"}
  ELSE {"SEND_TEXT"}

\* a message sent by the in-game window reaches the background window
BgOnMessageReceived(m) ==
  /\ BagIn(m, toBackground)
  /\ toBackground' = Receive(toBackground, m)
  /\ BgListener(m)
  /\ UNCHANGED <<processVars, bg_lastTranscribedText, overlayVars, igCaptureVars, keyVars>>

\* message ids that no window of the repository sends but the background listens for,
\* and an id nobody listens for
OutsideMessages == { Msg("START_RECORDING", Null), Msg("STOP_RECORDING", Null),
                     Msg("PING", Null) }

\* a message from outside the two controllers reaches the background window
BgOnOutsideMessage(m) ==
  /\ BgListener(m)
  /\ UNCHANGED <<toBackground, processVars, bg_lastTranscribedText, overlayVars,
                 igCaptureVars, keyVars>>

\* an ondataavailable handler that puts every waiting blob into one request
BgDataAvailableBatched(s) ==
  /\ bgSessions[s].fetch = "blob"
  /\ bgSessions' = [r \in Slots |->
        IF r = s THEN [bgSessions[r] EXCEPT !.fetch = "inflight"]
        ELSE IF bgSessions[r].fetch = "blob" THEN FreeSlot
        ELSE bgSessions[r]]
  /\ UNCHANGED <<bg_mediaRecorder, bg_currentStream, bgAcquiring, bgTimers, processVars,
                 bg_lastTranscribedText, toInGame, toBackground, injectVars, overlayVars,
                 igCaptureVars, keyVars>>

\* the recorder's dataavailable event: ondataavailable calls sendAudioToBackend,
\* which runs up to await fetch
BgDataAvailable(s) ==
  /\ bgSessions[s].fetch = "blob"
  /\ bgSessions' = [bgSessions EXCEPT ![s].fetch = "inflight"]
  /\ UNCHANGED <<bg_mediaRecorder, bg_currentStream, bgAcquiring, bgTimers, processVars,
                 bg_lastTranscribedText, toInGame, toBackground, injectVars, overlayVars,
                 igCaptureVars, keyVars>>

\* a success branch that stores the transcription only while none is stored yet
BgTranscribedKeepsFirst(s, t) ==
  /\ bgSessions[s].fetch = "inflight"
  /\ CanSend(toInGame, 1)
  /\ LET transcription == OrEmpty(t) IN
     /\ bg_lastTranscribedText' =
          (IF bg_lastTranscribedText = <<>> THEN transcription ELSE bg_lastTranscribedText)
     /\ toInGame' = Send(toInGame, Msg("TRANSCRIPTION_RESULT", transcription))
  /\ bgSessions' = [bgSessions EXCEPT ![s] = FreeSlot]
  /\ UNCHANGED <<bg_mediaRecorder, bg_currentStream, bgAcquiring, bgTimers, processVars,
                 toBackground, injectVars, overlayVars, igCaptureVars, keyVars>>

\* sendAudioToBackend resumes: response.ok, body {transcription: t}
BgTranscribed(s, t) ==
  /\ bgSessions[s].fetch = "inflight"
  /\ CanSend(toInGame, 1)
  /\ LET transcription == OrEmpty(t) IN
     /\ bg_lastTranscribedText' = transcription
     /\ toInGame' = Send(toInGame, Msg("TRANSCRIPTION_RESULT", transcription))
  /\ bgSessions' = [bgSessions EXCEPT ![s] = FreeSlot]
  /\ UNCHANGED <<bg_mediaRecorder, bg_currentStream, bgAcquiring, bgTimers, processVars,
                 toBackground, injectVars, overlayVars, igCaptureVars, keyVars>>

\* a catch block that reports the failure to the overlay as an empty result
BgTranscriptionFailedReported(s) ==
  /\ bgSessions[s].fetch = "inflight"
  /\ CanSend(toInGame, 1)
  /\ toInGame' = Send(toInGame, Msg("TRANSCRIPTION_RESULT", <<>>))
  /\ bgSessions' = [bgSessions EXCEPT ![s] = FreeSlot]
  /\ UNCHANGED <<bg_mediaRecorder, bg_currentStream, bgAcquiring, bgTimers, processVars,
                 bg_lastTranscribedText, toBackground, injectVars, overlayVars, igCaptureVars,
                 keyVars>>

\* a catch block that also forgets the text stored before
BgTranscriptionFailedClearsText(s) ==
  /\ bgSessions[s].fetch = "inflight"
  /\ bgSessions' = [bgSessions EXCEPT ![s] = FreeSlot]
  /\ bg_lastTranscribedText' = <<>>
  /\ UNCHANGED <<bg_mediaRecorder, bg_currentStream, bgAcquiring, bgTimers, processVars,
                 toInGame, toBackground, injectVars, overlayVars, igCaptureVars, keyVars>>

\* sendAudioToBackend resumes: fetch threw, or the response was not ok
BgTranscriptionFailed(s) ==
  /\ bgSessions[s].fetch = "inflight"
  /\ bgSessions' = [bgSessions EXCEPT ![s] = FreeSlot]
  /\ UNCHANGED <<bg_mediaRecorder, bg_currentStream, bgAcquiring, bgTimers, processVars,
                 bg_lastTranscribedText, toInGame, toBackground, injectVars, overlayVars,
                 igCaptureVars, keyVars>>

\* ------------------------------------------------------------------ in-game controller

\* hideOverlay() that finds no overlay element
HideOverlayNoElement == UNCHANGED overlayDisplay

\* hideOverlay()
HideOverlay == overlayDisplay' = "none"

\* hideCurrentWindow()
HideCurrentWindow == windowState' = "hidden"

\* displayTranscribedText(text) of in_game.ts
DisplayTranscribedText(text) ==
  /\ ig_lastTranscribedText' = text
  /\ textContent' = OrEmpty(text)
  /\ overlayDisplay' = "block"
  /\ UNCHANGED <<windowState, debugDisplay>>

\* displayTranscribedText(text) of the part_000 revision
ListenerDisplayTranscribedText(text) ==
  /\ windowState' = "normal"
  /\ textContent' = text
  /\ overlayDisplay' = "block"
  /\ UNCHANGED <<ig_lastTranscribedText, debugDisplay>>

\* overlay && overlay.style.display === 'block'
OverlayShown == overlayDisplay = "block"

\* the accept and cancel buttons are children of the overlay element of a window:
\* the user can click them only while both are on screen
ButtonsOnScreen == overlayDisplay = "block" /\ windowState = "normal"

\* OWHotkeys.onHotkeyDown(kHotkeys.accept) of in_game.ts
IgAcceptHotkey ==
  /\ igVersion = IgLive
  /\ Dispatched("ig", "accept") /\ Handled("ig", "accept")
  /\ IF OverlayShown
     THEN /\ CanSend(toBackground, 1)
          /\ HideOverlay
          /\ HideCurrentWindow
          /\ toBackground' = Send(toBackground, Msg("SEND_TEXT", ig_lastTranscribedText))
          /\ UNCHANGED <<textContent, ig_lastTranscribedText, debugDisplay>>
     ELSE UNCHANGED <<overlayVars, toBackground>>
  /\ UNCHANGED <<processVars, captureVars, bg_lastTranscribedText, toInGame, injectVars,
                 igCaptureVars>>

\* OWHotkeys.onHotkeyDown(kHotkeys.discard) of in_game.ts
IgDiscardHotkey ==
  /\ igVersion = IgLive
  /\ Dispatched("ig", "discard") /\ Handled("ig", "discard")
  /\ IF OverlayShown
     THEN HideOverlay /\ UNCHANGED <<textContent, windowState, ig_lastTranscribedText, debugDisplay>>
     ELSE UNCHANGED overlayVars
  /\ UNCHANGED <<processVars, captureVars, bg_lastTranscribedText, toInGame, toBackground,
                 injectVars, igCaptureVars>>

\* click on #accept-button
IgAcceptClick ==
  /\ ButtonsOnScreen
  /\ CanSend(toBackground, 1)
  /\ IF igVersion = IgLive
     THEN /\ HideOverlay
          /\ HideCurrentWindow
          /\ toBackground' = Send(toBackground, Msg("SEND_TEXT", textContent))
          /\ UNCHANGED <<textContent, ig_lastTranscribedText, debugDisplay>>
     ELSE /\ toBackground' = Send(toBackground, Msg("ACCEPT_CLICKED", Null))
          /\ UNCHANGED overlayVars
  /\ UNCHANGED <<processVars, captureVars, bg_lastTranscribedText, toInGame, injectVars,
                 igCaptureVars, keyVars>>

\* click on #cancel-button
IgCancelClick ==
  /\ ButtonsOnScreen
  /\ IF igVersion = IgLive
     THEN /\ HideOverlay
          /\ UNCHANGED <<textContent, windowState, ig_lastTranscribedText, debugDisplay, toBackground>>
     ELSE /\ CanSend(toBackground, 1)
          /\ toBackground' = Send(toBackground, Msg("DISCARD_CLICKED", Null))
          /\ UNCHANGED overlayVars
  /\ UNCHANGED <<processVars, captureVars, bg_lastTranscribedText, toInGame, injectVars,
                 igCaptureVars, keyVars>>

\* a listener whose CLOSE_OVERLAY case hides the window and leaves the overlay element
IgListenerSwitchWindowOnly(m) ==
  CASE m.id = "TRANSCRIPTION_RESULT" -> ListenerDisplayTranscribedText(OrEmpty(m.text))
    [] m.id = "CLOSE_OVERLAY" ->
         /\ HideCurrentWindow
         /\ UNCHANGED <<overlayDisplay, textContent, ig_lastTranscribedText, debugDisplay>>
    [] OTHER -> UNCHANGED overlayVars

\* a listener whose CLOSE_OVERLAY case toggles the overlay element
IgListenerSwitchCloseToggles(m) ==
  CASE m.id = "TRANSCRIPTION_RESULT" -> ListenerDisplayTranscribedText(OrEmpty(m.text))
    [] m.id = "CLOSE_OVERLAY" ->
         /\ overlayDisplay' = (IF overlayDisplay = "block" THEN "none" ELSE "block")
         /\ HideCurrentWindow
         /\ UNCHANGED <<textContent, ig_lastTranscribedText, debugDisplay>>
    [] m.id = "SHOW_DEBUG" ->
         /\ debugDisplay' = "block"
         /\ UNCHANGED <<overlayDisplay, textContent, windowState, ig_lastTranscribedText>>
    [] OTHER -> UNCHANGED overlayVars

\* the onMessageReceived listener of the part_000 revision: switch (message.id)
IgListenerSwitch(m) ==
  CASE m.id = "TRANSCRIPTION_RESULT" -> ListenerDisplayTranscribedText(OrEmpty(m.text))
    [] m.id = "CLOSE_OVERLAY" ->
         /\ HideOverlay
         /\ HideCurrentWindow
         /\ UNCHANGED <<textContent, ig_lastTranscribedText, debugDisplay>>
    [] m.id = "SHOW_DEBUG" ->
         /\ debugDisplay' = "block"
         /\ UNCHANGED <<overlayDisplay, textContent, windowState, ig_lastTranscribedText>>
    [] OTHER -> UNCHANGED overlayVars

\* the message ids the listener of each in-game revision has a case for
IgHandles(v) ==
  IF v = IgListener THEN {"TRANSCRIPTION_RESULT", "CLOSE_OVERLAY", "SHOW_DEBUG"} ELSE {}

\* a message sent by the background window reaches the in-game window; in_game.ts
\* registers no listener, so there the message has no effect
IgOnMessageReceived(m) ==
  /\ BagIn(m, toInGame)
  /\ toInGame' = Receive(toInGame, m)
  /\ IF igVersion = IgListener THEN IgListenerSwitch(m) ELSE UNCHANGED overlayVars
  /\ UNCHANGED <<processVars, captureVars, bg_lastTranscribedText, toBackground, injectVars,
                 igCaptureVars, keyVars>>

\* a message from outside the two controllers reaches the in-game window
IgOnOutsideMessage(m) ==
  /\ IF igVersion = IgListener THEN IgListenerSwitch(m) ELSE UNCHANGED overlayVars
  /\ UNCHANGED <<processVars, captureVars, bg_lastTranscribedText, toInGame, toBackground,
                 injectVars, igCaptureVars, keyVars>>

\* a debug hotkey that toggles the transcription overlay instead of the debug overlay
IgDebugHotkeyWrongElement ==
  /\ Dispatched("ig", "debug") /\ Handled("ig", "debug")
  /\ overlayDisplay' = (IF overlayDisplay = "none" THEN "block" ELSE "none")
  /\ UNCHANGED <<textContent, windowState, ig_lastTranscribedText, debugDisplay>>
  /\ UNCHANGED <<processVars, captureVars, bg_lastTranscribedText, toInGame, toBackground,
                 injectVars, igCaptureVars>>

\* OWHotkeys.onHotkeyDown(kHotkeys.debug) of the in-game window
IgDebugHotkey ==
  /\ Dispatched("ig", "debug") /\ Handled("ig", "debug")
  /\ debugDisplay' = (IF debugDisplay = "none" THEN "block" ELSE "none")
  /\ UNCHANGED <<overlayDisplay, textContent, windowState, ig_lastTranscribedText>>
  /\ UNCHANGED <<processVars, captureVars, bg_lastTranscribedText, toInGame, toBackground,
                 injectVars, igCaptureVars>>

\* click on #close-debug-overlay
IgCloseDebugClick ==
  /\ debugDisplay = "block"
  /\ windowState = "normal"
  /\ debugDisplay' = "none"
  /\ UNCHANGED <<overlayDisplay, textContent, windowState, ig_lastTranscribedText>>
  /\ UNCHANGED <<processVars, captureVars, bg_lastTranscribedText, toInGame, toBackground,
                 injectVars, igCaptureVars, keyVars>>

\* OWHotkeys.onHotkeyDown(kHotkeys.toggle): toggleInGameWindow
IgToggleHotkey ==
  /\ Dispatched("ig", "toggle") /\ Handled("ig", "toggle")
  /\ windowState' = (CASE windowState = "normal" -> "minimized"
                       [] windowState = "minimized" -> "normal"
                       [] OTHER -> windowState)
  /\ UNCHANGED <<overlayDisplay, textContent, ig_lastTranscribedText, debugDisplay>>
  /\ UNCHANGED <<processVars, captureVars, bg_lastTranscribedText, toInGame, toBackground,
                 injectVars, igCaptureVars>>

\* ---- the part_001 revision: the in-game window pastes the text into the chat itself

\* sendTextToChat(text), up to the first setTimeout
SendTextToChat(text) ==
  IF IsBlank(text)
  THEN /\ injections' = Append(injections,
            [text |-> text, pc |-> "rejected", trace |-> <<>>, by |-> "overlay"])
       /\ UNCHANGED clipboard
  ELSE /\ clipboard' = text
       /\ injections' = Append(injections,
            [text |-> text, pc |-> "read", trace |-> <<Call("placeOnClipboard", text)>>,
             by |-> "overlay"])

\* hideOverlay() of the part_001 revision
ChatHideOverlay ==
  /\ overlayDisplay' = "none"
  /\ ig_lastTranscribedText' = <<>>

\* OWHotkeys.onHotkeyDown(kHotkeys.accept) of the part_001 revision
IgChatAcceptHotkey ==
  /\ igVersion = IgChat
  /\ Dispatched("ig", "accept") /\ Handled("ig", "accept")
  /\ IF OverlayShown
     THEN /\ Len(injections) < MaxInjections
          /\ SendTextToChat(ig_lastTranscribedText)
          /\ ChatHideOverlay
          /\ UNCHANGED <<textContent, windowState, debugDisplay>>
     ELSE UNCHANGED <<overlayVars, injectVars>>
  /\ UNCHANGED <<processVars, captureVars, bg_lastTranscribedText, toInGame, toBackground,
                 igCaptureVars>>

\* OWHotkeys.onHotkeyDown(kHotkeys.discard) of the part_001 revision
IgChatDiscardHotkey ==
  /\ igVersion = IgChat
  /\ Dispatched("ig", "discard") /\ Handled("ig", "discard")
  /\ IF OverlayShown
     THEN ChatHideOverlay /\ UNCHANGED <<textContent, windowState, debugDisplay>>
     ELSE UNCHANGED overlayVars
  /\ UNCHANGED <<processVars, captureVars, bg_lastTranscribedText, toInGame, toBackground,
                 injectVars, igCaptureVars>>

\* click on #accept-button in the part_001 revision
IgChatAcceptClick ==
  /\ igVersion = IgChat
  /\ ButtonsOnScreen
  /\ Len(injections) < MaxInjections
  /\ SendTextToChat(textContent)
  /\ ChatHideOverlay
  /\ UNCHANGED <<textContent, windowState, debugDisplay>>
  /\ UNCHANGED <<processVars, captureVars, bg_lastTranscribedText, toInGame, toBackground,
                 igCaptureVars, keyVars>>

\* click on #cancel-button in the part_001 revision
IgChatCancelClick ==
  /\ igVersion = IgChat
  /\ ButtonsOnScreen
  /\ ChatHideOverlay
  /\ UNCHANGED <<textContent, windowState, debugDisplay>>
  /\ UNCHANGED <<processVars, captureVars, bg_lastTranscribedText, toInGame, toBackground,
                 injectVars, igCaptureVars, keyVars>>

\* the first timer of sendTextToChat fires: getFromClipboard and its callback
ChatReadBack(i) ==
  /\ i \in DOMAIN injections
  /\ injections[i].by = "overlay"
  /\ injections[i].pc = "read"
  /\ LET clipboardString == IF clipboard = <<>> THEN Null ELSE clipboard
         mismatch == ~Truthy(clipboardString) \/ clipboardString # injections[i].text
     IN /\ injections' = [injections EXCEPT
              ![i].trace = Append(@, Call("getFromClipboard", clipboardString)),
              ![i].pc = IF mismatch THEN "mismatch" ELSE AfterMatch]
        /\ IF mismatch
           THEN UNCHANGED overlayVars
           ELSE ChatHideOverlay /\ UNCHANGED <<textContent, windowState, debugDisplay>>
  /\ UNCHANGED <<clipboard, processVars, captureVars, bg_lastTranscribedText, toInGame,
                 toBackground, igCaptureVars, keyVars>>

\* one of the three nested timers of sendTextToChat fires: sendKeyStroke
ChatKeyStroke(i) ==
  /\ i \in DOMAIN injections
  /\ injections[i].by = "overlay"
  /\ injections[i].pc \in {"enter1", "paste", "enter2"}
  /\ injections' = [injections EXCEPT
        ![i].trace = Append(@, Call("sendKeyStroke", KeyAt(injections[i].pc))),
        ![i].pc = NextPc(injections[i].pc)]
  /\ UNCHANGED <<clipboard, processVars, captureVars, bg_lastTranscribedText, toInGame,
                 toBackground, overlayVars, igCaptureVars, keyVars>>

\* InGame.startRecording() and startPushToTalkRecording(), up to await getUserMedia
IgStart(mode) ==
  /\ igAcquiring[mode] < MaxAcquiring
  /\ igAcquiring' = [igAcquiring EXCEPT ![mode] = @ + 1]
  /\ UNCHANGED <<ig_mediaRecorder, igSessions, igTimers>>

\* OWHotkeys.onHotkeyDown(kHotkeys.record) of in_game.ts
IgRecordHotkey ==
  /\ Dispatched("ig", "record") /\ Handled("ig", "record")
  /\ IgStart("timed")
  /\ UNCHANGED <<processVars, captureVars, bg_lastTranscribedText, toInGame, toBackground,
                 injectVars, overlayVars>>

\* onHold listener of in_game.ts, push_to_talk 'down'
IgPushToTalkDown ==
  /\ Dispatched("ig", "ptt_down") /\ Handled("ig", "ptt_down")
  /\ IgStart("ptt")
  /\ UNCHANGED <<processVars, captureVars, bg_lastTranscribedText, toInGame, toBackground,
                 injectVars, overlayVars>>

\* the in-game recorder objects nothing refers to any more are dropped
IgCollect(sessions, kept) ==
  [i \in Slots |->
     IF i # kept /\ sessions[i].rec = "inactive" /\ sessions[i].fetch = "none"
     THEN FreeSlot ELSE sessions[i]]

\* if (this.mediaRecorder && this.mediaRecorder.state !== 'inactive') this.mediaRecorder.stop()
IgStopIfActive ==
  IF RecorderActive(igSessions, ig_mediaRecorder)
  THEN igSessions' = StopRecorder(igSessions, ig_mediaRecorder)
  ELSE UNCHANGED igSessions

\* the in-game start resumes: getUserMedia resolved with a stream
IgMicrophoneAcquired(mode) ==
  /\ igAcquiring[mode] > 0
  /\ FreeSlots(IgCollect(igSessions, 0)) # {}
  /\ mode = "timed" => igTimers < MaxTimers
  /\ LET s == NewSlot(IgCollect(igSessions, 0)) IN
     /\ ig_mediaRecorder' = s
     /\ igSessions' = [IgCollect(igSessions, 0) EXCEPT ![s] = NewRecorder]
  /\ igAcquiring' = [igAcquiring EXCEPT ![mode] = @ - 1]
  /\ igTimers' = IF mode = "timed" THEN igTimers + 1 ELSE igTimers
  /\ UNCHANGED <<processVars, captureVars, bg_lastTranscribedText, toInGame, toBackground,
                 injectVars, overlayVars, keyVars>>

\* the in-game start resumes: getUserMedia rejected
IgMicrophoneRefused(mode) ==
  /\ igAcquiring[mode] > 0
  /\ igAcquiring' = [igAcquiring EXCEPT ![mode] = @ - 1]
  /\ UNCHANGED <<ig_mediaRecorder, igSessions, igTimers, processVars, captureVars,
                 bg_lastTranscribedText, toInGame, toBackground, injectVars, overlayVars,
                 keyVars>>

\* the 5-second timer of InGame.startRecording fires
IgTimerFires ==
  /\ igTimers > 0
  /\ igTimers' = igTimers - 1
  /\ IgStopIfActive
  /\ UNCHANGED <<ig_mediaRecorder, igAcquiring, processVars, captureVars,
                 bg_lastTranscribedText, toInGame, toBackground, injectVars, overlayVars,
                 keyVars>>

\* onHold listener of in_game.ts, push_to_talk 'up': stopPushToTalkRecording()
IgPushToTalkUp ==
  /\ Dispatched("ig", "ptt_up") /\ Handled("ig", "ptt_up")
  /\ IgStopIfActive
  /\ UNCHANGED <<ig_mediaRecorder, igAcquiring, igTimers, processVars, captureVars,
                 bg_lastTranscribedText, toInGame, toBackground, injectVars, overlayVars>>

\* the in-game recorder's dataavailable event: sendAudioToBackend up to await fetch
IgDataAvailable(s) ==
  /\ igSessions[s].fetch = "blob"
  /\ igSessions' = [igSessions EXCEPT ![s].fetch = "inflight"]
  /\ UNCHANGED <<ig_mediaRecorder, igAcquiring, igTimers, processVars, captureVars,
                 bg_lastTranscribedText, toInGame, toBackground, injectVars, overlayVars,
                 keyVars>>

\* InGame.sendAudioToBackend resumes: response.ok, body {transcription: t}
IgTranscribed(s, t) ==
  /\ igSessions[s].fetch = "inflight"
  /\ DisplayTranscribedText(t)
  /\ igSessions' = IgCollect([igSessions EXCEPT ![s].fetch = "none"], ig_mediaRecorder)
  /\ UNCHANGED <<ig_mediaRecorder, igAcquiring, igTimers, processVars, captureVars,
                 bg_lastTranscribedText, toInGame, toBackground, injectVars, keyVars>>

\* InGame.sendAudioToBackend resumes: fetch threw, or the response was not ok
IgTranscriptionFailed(s) ==
  /\ igSessions[s].fetch = "inflight"
  /\ igSessions' = IgCollect([igSessions EXCEPT ![s].fetch = "none"], ig_mediaRecorder)
  /\ UNCHANGED <<ig_mediaRecorder, igAcquiring, igTimers, processVars, captureVars,
                 bg_lastTranscribedText, toInGame, toBackground, injectVars, overlayVars,
                 keyVars>>

\* ------------------------------------------------------------------ specification

\* The revisions that belong together: background.ts sends what the part_000 in-game
\* window listens for, and in_game.ts sends what the part_002 background listens for.
\* background.ts with in_game.ts, the two files under ts/src, exchange nothing either
\* of them handles; that pair is explored by SpecReview below.
Pairs == { <<BgLive, IgListener>>, <<BgSendText, IgLive>> }

\* ------------------------------------------------------------------ singletons

\* the most calls of instance() explored in one process
MaxCalls == 5

\* The listeners a constructor registers: OWHotkeys.onHotkeyDown(name, ...),
\* hotkeys.onHold.addListener, windows.onMessageReceived.addListener,
\* extensions.onAppLaunchTriggered.addListener and element.addEventListener('click', ...).
HotkeyListener(k) == <<"onHotkeyDown", k>>
HoldListener == <<"onHold", "push_to_talk">>
MessageListener == <<"onMessageReceived", "window">>
AppLaunchListener == <<"onAppLaunchTriggered", "extension">>
ClickListener(e) == <<"click", e>>

ListenerNames ==
  { HotkeyListener(k) : k \in {"accept", "discard", "record", "debug", "toggle"} }
    \cup { ClickListener(e) : e \in {"close-debug-overlay", "accept-button", "cancel-button"} }
    \cup { HoldListener, MessageListener, AppLaunchListener }

\* what one run of the BackgroundController constructor registers
BgRegisters(v) ==
  IF v = BgLive
  THEN { AppLaunchListener, MessageListener, HoldListener }
         \cup { HotkeyListener(k) : k \in {"accept", "discard", "record", "debug"} }
  ELSE { AppLaunchListener, MessageListener }

PageClicks == { ClickListener(e) : e \in {"close-debug-overlay", "accept-button", "cancel-button"} }

\* what one run of the InGame constructor registers
IgRegisters(v) ==
  IF v = IgListener
  THEN { HotkeyListener("toggle"), HotkeyListener("debug"), MessageListener } \cup PageClicks
  ELSE { HotkeyListener(k) : k \in {"toggle", "debug", "record", "accept", "discard"} }
         \cup { HoldListener } \cup PageClicks

NoListeners == [l \in ListenerNames |-> 0]
Registered(listeners, added) ==
  [l \in ListenerNames |-> IF l \in added THEN listeners[l] + 1 ELSE listeners[l]]

\* new BackgroundController(): a new object, its listeners registered, its text field ''
BgConstruct ==
  /\ bgConstructions' = bgConstructions + 1
  /\ bg_instance' = bgConstructions + 1
  /\ bgListeners' = Registered(bgListeners, BgRegisters(bgVersion))
  /\ bg_lastTranscribedText' = (IF bgVersion = BgLive THEN <<>> ELSE bg_lastTranscribedText)

\* instance() without the test of _instance: every call constructs
BgInstanceUnguarded ==
  /\ Len(bgReturned) < MaxCalls
  /\ BgConstruct
  /\ bgReturned' = Append(bgReturned, bg_instance')
  /\ UNCHANGED <<versionVars, ig_instance, igConstructions, igListeners, igReturned,
                 captureVars, toInGame, toBackground, injectVars, overlayVars,
                 igCaptureVars, keyVars>>

\* BackgroundController.instance()
BgInstance ==
  /\ Len(bgReturned) < MaxCalls
  /\ IF bg_instance = 0
     THEN BgConstruct
     ELSE UNCHANGED <<bg_instance, bgConstructions, bgListeners, bg_lastTranscribedText>>
  /\ bgReturned' = Append(bgReturned, bg_instance')
  /\ UNCHANGED <<versionVars, ig_instance, igConstructions, igListeners, igReturned,
                 captureVars, toInGame, toBackground, injectVars, overlayVars,
                 igCaptureVars, keyVars>>

\* new InGame(): a new object, its listeners registered, its text field ''
IgConstruct ==
  /\ igConstructions' = igConstructions + 1
  /\ ig_instance' = igConstructions + 1
  /\ igListeners' = Registered(igListeners, IgRegisters(igVersion))
  /\ ig_lastTranscribedText' = (IF igVersion = IgListener THEN ig_lastTranscribedText ELSE <<>>)

\* InGame.instance()
IgInstance ==
  /\ Len(igReturned) < MaxCalls
  /\ IF ig_instance = 0
     THEN IgConstruct
     ELSE UNCHANGED <<ig_instance, igConstructions, igListeners, ig_lastTranscribedText>>
  /\ igReturned' = Append(igReturned, ig_instance')
  /\ UNCHANGED <<versionVars, bg_instance, bgConstructions, bgListeners, bgReturned,
                 captureVars, bg_lastTranscribedText, toInGame, toBackground, injectVars,
                 overlayDisplay, textContent, windowState, debugDisplay,
                 igCaptureVars, keyVars>>

\* Both scripts ran their last line, instance().run(): one call, one construction.
Loaded ==
  /\ bg_instance = 1
  /\ bgConstructions = 1
  /\ bgListeners = Registered(NoListeners, BgRegisters(bgVersion))
  /\ bgReturned = <<1>>
  /\ ig_instance = 1
  /\ igConstructions = 1
  /\ igListeners = Registered(NoListeners, IgRegisters(igVersion))
  /\ igReturned = <<1>>

\* Neither script has run yet.
Unloaded ==
  /\ bg_instance = 0
  /\ bgConstructions = 0
  /\ bgListeners = NoListeners
  /\ bgReturned = <<>>
  /\ ig_instance = 0
  /\ igConstructions = 0
  /\ igListeners = NoListeners
  /\ igReturned = <<>>

\* The fields and the page of both processes before any event.
Fields ==
  /\ bg_mediaRecorder = 0
  /\ bg_currentStream = 0
  /\ bgSessions = [i \in Slots |-> FreeSlot]
  /\ bgAcquiring = 0
  /\ bgTimers = 0
  /\ bg_lastTranscribedText = <<>>
  /\ toInGame = EmptyBag
  /\ toBackground = EmptyBag
  /\ injections = <<>>
  /\ clipboard = <<>>
  /\ overlayDisplay = "none"
  /\ textContent = <<>>
  /\ windowState = "normal"
  /\ debugDisplay = "none"
  /\ ig_lastTranscribedText = <<>>
  /\ ig_mediaRecorder = 0
  /\ igSessions = [i \in Slots |-> FreeSlot]
  /\ igAcquiring = [mode \in {"timed", "ptt"} |-> 0]
  /\ igTimers = 0
  /\ pendingKeys = {}
  /\ held = FALSE

\* The fields and the page after both constructors ran.
Constructed == Fields /\ Loaded

\* The state after both constructors ran.
Init ==
  /\ \E p \in Pairs : bgVersion = p[1] /\ igVersion = p[2]
  /\ Constructed

User ==
  \/ \E k \in KeyNames : PressKey(k)
  \/ IgAcceptClick
  \/ IgCancelClick

Background ==
  \/ BgRecordHotkey
  \/ BgPushToTalkDown
  \/ BgPushToTalkUp
  \/ BgAcceptHotkey
  \/ BgDiscardHotkey
  \/ BgMicrophoneAcquired
  \/ BgMicrophoneRefused
  \/ BgTimerFires
  \/ \E m \in BagToSet(toBackground) : BgOnMessageReceived(m)
  \/ \E m \in OutsideMessages : BgOnOutsideMessage(m)
  \/ \E s \in Slots : BgDataAvailable(s)
  \/ \E s \in Slots, t \in ResponseTexts : BgTranscribed(s, t)
  \/ \E s \in Slots : BgTranscriptionFailed(s)

Injection ==
  \/ \E i \in 1..MaxInjections : InjReadBack(i)
  \/ \E i \in 1..MaxInjections : InjKeyStroke(i)
  \/ \E c \in ForeignClips : ForeignClipboardWrite(c)

InGame ==
  \/ IgAcceptHotkey
  \/ IgDiscardHotkey
  \/ IgRecordHotkey
  \/ IgPushToTalkDown
  \/ IgPushToTalkUp
  \/ \E m \in BagToSet(toInGame) : IgOnMessageReceived(m)
  \/ \E mode \in {"timed", "ptt"} : IgMicrophoneAcquired(mode)
  \/ \E mode \in {"timed", "ptt"} : IgMicrophoneRefused(mode)
  \/ IgTimerFires
  \/ \E s \in Slots : IgDataAvailable(s)
  \/ \E s \in Slots, t \in ResponseTexts : IgTranscribed(s, t)
  \/ \E s \in Slots : IgTranscriptionFailed(s)

\* every step either process, the user or the environment can take
System == User \/ Background \/ Injection \/ InGame

SpecSystem == Init /\ [][System]_vars

\* ---- from a key press to the start of the injection: the user records one utterance
\* at a time with the record key (the next press comes after the recorders it started
\* have stopped and their transcription requests have ended), and accepts or discards
\* at any time; the timers of the injection do not fire yet
CaptureIdle ==
  /\ bgAcquiring = 0 /\ bgTimers = 0
  /\ \A i \in Slots : bgSessions[i].rec # "recording" /\ bgSessions[i].fetch = "none"
  /\ igTimers = 0 /\ \A mode \in {"timed", "ptt"} : igAcquiring[mode] = 0
  /\ \A i \in Slots : igSessions[i].rec # "recording" /\ igSessions[i].fetch = "none"

Next ==
  \/ CaptureIdle /\ PressKey("record")
  \/ \E k \in {"accept", "discard"} : PressKey(k)
  \/ IgAcceptClick
  \/ IgCancelClick
  \/ BgRecordHotkey
  \/ Len(injections) < MaxAccepts /\ BgAcceptHotkey
  \/ BgDiscardHotkey
  \/ BgMicrophoneAcquired
  \/ BgMicrophoneRefused
  \/ BgTimerFires
  \/ \E m \in BagToSet(toBackground) :
       /\ m.id \in {"ACCEPT_CLICKED", "SEND_TEXT"} => Len(injections) < MaxAccepts
       /\ BgOnMessageReceived(m)
  \/ \E s \in Slots : BgDataAvailable(s)
  \/ \E s \in Slots, t \in ResponseTexts : BgTranscribed(s, t)
  \/ \E s \in Slots : BgTranscriptionFailed(s)
  \/ IgAcceptHotkey
  \/ IgDiscardHotkey
  \/ IgRecordHotkey
  \/ \E m \in BagToSet(toInGame) : IgOnMessageReceived(m)
  \/ IgMicrophoneAcquired("timed")
  \/ IgMicrophoneRefused("timed")
  \/ IgTimerFires
  \/ \E s \in Slots : IgDataAvailable(s)
  \/ \E s \in Slots, t \in ResponseTexts : IgTranscribed(s, t)
  \/ \E s \in Slots : IgTranscriptionFailed(s)

Spec == Init /\ [][Next]_vars

\* ---- the review of one transcription: a result was stored and is on display, nobody
\* records; the user accepts or discards by key or by button, the messages travel, the
\* injection runs through its timers, another application may write the clipboard
ReviewTexts == { <<"a">>, <<"b">>, <<" ">>, <<>> }

\* in_game.ts leaves its last recorder, stopped, in this.mediaRecorder
StoppedRecorder == [rec |-> "inactive", live |-> TRUE, fetch |-> "none"]

InitReview ==
  /\ \E p \in Pairs \cup {<<BgLive, IgLive>>} : bgVersion = p[1] /\ igVersion = p[2]
  /\ bg_mediaRecorder = 0
  /\ bg_currentStream = 0
  /\ bgSessions = [i \in Slots |-> FreeSlot]
  /\ bgAcquiring = 0
  /\ bgTimers = 0
  /\ bg_lastTranscribedText \in (IF bgVersion = BgLive THEN ReviewTexts ELSE {<<>>})
  /\ toInGame = EmptyBag
  /\ toBackground = EmptyBag
  /\ injections = <<>>
  /\ clipboard = <<>>
  /\ overlayDisplay = "block"
  /\ textContent \in (IF igVersion = IgLive THEN ReviewTexts ELSE {bg_lastTranscribedText})
  /\ windowState = "normal"
  /\ debugDisplay = "none"
  /\ ig_lastTranscribedText = (IF igVersion = IgLive THEN textContent ELSE <<>>)
  /\ ig_mediaRecorder = (IF igVersion = IgLive THEN 1 ELSE 0)
  /\ igSessions = [i \in Slots |->
                     IF igVersion = IgLive /\ i = 1 THEN StoppedRecorder ELSE FreeSlot]
  /\ igAcquiring = [mode \in {"timed", "ptt"} |-> 0]
  /\ igTimers = 0
  /\ pendingKeys = {}
  /\ held = FALSE
  /\ Loaded

NextReview ==
  \/ \E k \in {"accept", "discard"} : PressKey(k)
  \/ IgAcceptClick
  \/ IgCancelClick
  \/ BgAcceptHotkey
  \/ BgDiscardHotkey
  \/ IgAcceptHotkey
  \/ IgDiscardHotkey
  \/ \E m \in BagToSet(toBackground) : BgOnMessageReceived(m)
  \/ \E m \in BagToSet(toInGame) : IgOnMessageReceived(m)
  \/ \E i \in 1..MaxInjections : InjReadBack(i)
  \/ \E i \in 1..MaxInjections : InjKeyStroke(i)
  \/ \E c \in ForeignClips : ForeignClipboardWrite(c)

SpecReview == InitReview /\ [][NextReview]_vars

\* ---- the capture session of the background controller on its own: the user presses
\* only the record and push-to-talk keys, the in-game window has no key listener
InitCapture == Init /\ bgVersion = BgLive /\ igVersion = IgListener

NextCapture ==
  \/ \E k \in {"record", "ptt_down", "ptt_up"} : PressKey(k)
  \/ BgRecordHotkey
  \/ BgPushToTalkDown
  \/ BgPushToTalkUp
  \/ BgMicrophoneAcquired
  \/ BgMicrophoneRefused
  \/ BgTimerFires
  \/ \E m \in OutsideMessages : BgOnOutsideMessage(m)
  \/ \E s \in Slots : BgDataAvailable(s)
  \/ \E s \in Slots, t \in ResponseTexts : BgTranscribed(s, t)
  \/ \E s \in Slots : BgTranscriptionFailed(s)
  \/ \E m \in BagToSet(toInGame) : IgOnMessageReceived(m)

SpecCapture == InitCapture /\ [][NextCapture]_vars

\* ---- held-mode sessions of the background controller on their own: the user holds and
\* releases the push_to_talk key, nothing else
NextHold ==
  \/ \E k \in {"ptt_down", "ptt_up"} : PressKey(k)
  \/ BgPushToTalkDown
  \/ BgPushToTalkUp
  \/ BgMicrophoneAcquired
  \/ BgMicrophoneRefused
  \/ \E s \in Slots : BgDataAvailable(s)
  \/ \E s \in Slots, t \in ResponseTexts : BgTranscribed(s, t)
  \/ \E s \in Slots : BgTranscriptionFailed(s)
  \/ \E m \in BagToSet(toInGame) : IgOnMessageReceived(m)

SpecHold == InitCapture /\ [][NextHold]_vars

\* ---- timed sessions of the background controller on their own: the user presses the
\* record key, nothing else
NextTimed ==
  \/ PressKey("record")
  \/ BgRecordHotkey
  \/ BgMicrophoneAcquired
  \/ BgMicrophoneRefused
  \/ BgTimerFires
  \/ \E s \in Slots : BgDataAvailable(s)
  \/ \E s \in Slots, t \in ResponseTexts : BgTranscribed(s, t)
  \/ \E s \in Slots : BgTranscriptionFailed(s)
  \/ \E m \in BagToSet(toInGame) : IgOnMessageReceived(m)

SpecTimed == InitCapture /\ [][NextTimed]_vars

\* ---- one utterance after the other in the background controller: the user presses
\* the record key or holds the push_to_talk key only while nothing records and no
\* acquisition is pending, and releases only a key that is held; the 5-second timers of
\* earlier presses may still be armed
Quiet == bgAcquiring = 0 /\ Recording(bgSessions) = {}

NextSequential ==
  \/ Quiet /\ ~held /\ \E k \in {"record", "ptt_down"} : PressKey(k)
  \/ held /\ PressKey("ptt_up")
  \/ BgRecordHotkey
  \/ BgPushToTalkDown
  \/ BgPushToTalkUp
  \/ BgMicrophoneAcquired
  \/ BgMicrophoneRefused
  \/ BgTimerFires
  \/ \E s \in Slots : BgDataAvailable(s)
  \/ \E s \in Slots, t \in ResponseTexts : BgTranscribed(s, t)
  \/ \E s \in Slots : BgTranscriptionFailed(s)
  \/ \E m \in BagToSet(toInGame) : IgOnMessageReceived(m)

SpecSequential == InitCapture /\ [][NextSequential]_vars

\* ---- timed sessions only: the user starts one utterance after the other with the
\* record key and taps the push_to_talk key only while a timed session records, so its
\* 'down' is turned away as already recording; STOP_RECORDING arrives from outside; a
\* dispatched key event is handled before a timer fires or a message arrives
NextTap ==
  \/ Quiet /\ ~held /\ PressKey("record")
  \/ bg_mediaRecorder \in Recording(bgSessions) /\ ~held /\ PressKey("ptt_down")
  \/ held /\ PressKey("ptt_up")
  \/ BgRecordHotkey
  \/ BgPushToTalkDown
  \/ BgPushToTalkUp
  \/ BgMicrophoneAcquired
  \/ BgMicrophoneRefused
  \/ pendingKeys = {} /\ BgTimerFires
  \/ pendingKeys = {} /\ BgOnOutsideMessage(Msg("STOP_RECORDING", Null))
  \/ \E s \in Slots : BgDataAvailable(s)
  \/ \E s \in Slots, t \in ResponseTexts : BgTranscribed(s, t)
  \/ \E s \in Slots : BgTranscriptionFailed(s)
  \/ \E m \in BagToSet(toInGame) : IgOnMessageReceived(m)

SpecTap == InitCapture /\ [][NextTap]_vars

\* ---- the same, with the event loop of the background window running: a dispatched
\* hotkey event is handled, a pending getUserMedia promise settles and an armed timer
\* fires; the user is free not to press or release anything
HandlersRun ==
  /\ WF_vars(BgRecordHotkey)
  /\ WF_vars(BgPushToTalkDown)
  /\ WF_vars(BgPushToTalkUp)
  /\ WF_vars(BgMicrophoneAcquired \/ BgMicrophoneRefused)
  /\ WF_vars(BgTimerFires)

SpecEventually == InitCapture /\ [][NextSequential]_vars /\ HandlersRun

\* ---- the two files under ts/src together, background.ts and in_game.ts: both register
\* the record and the push_to_talk hotkeys, each starts and stops its own recorders
InitHotkeys == bgVersion = BgLive /\ igVersion = IgLive /\ Constructed

NextHotkeys ==
  \/ \E k \in {"record", "ptt_down", "ptt_up"} : PressKey(k)
  \/ BgRecordHotkey
  \/ BgPushToTalkDown
  \/ BgPushToTalkUp
  \/ BgMicrophoneAcquired
  \/ BgMicrophoneRefused
  \/ BgTimerFires
  \/ IgRecordHotkey
  \/ IgPushToTalkDown
  \/ IgPushToTalkUp
  \/ \E mode \in {"timed", "ptt"} : IgMicrophoneAcquired(mode)
  \/ \E mode \in {"timed", "ptt"} : IgMicrophoneRefused(mode)
  \/ IgTimerFires

SpecHotkeys == InitHotkeys /\ [][NextHotkeys]_vars

\* ---- failures and what follows them in background.ts: the user presses the record,
\* accept and discard keys one at a time, the next one after the recording, the request
\* and the messages of the one before have ended; the microphone may be refused, the
\* request may fail, the text may be blank, the clipboard may be overwritten
NextRecover ==
  \/ /\ CaptureIdle
     /\ toInGame = EmptyBag
     /\ \E k \in {"record", "accept", "discard"} : PressKey(k)
  \/ BgRecordHotkey
  \/ BgAcceptHotkey
  \/ BgDiscardHotkey
  \/ BgMicrophoneAcquired
  \/ BgMicrophoneRefused
  \/ BgTimerFires
  \/ \E s \in Slots : BgDataAvailable(s)
  \/ \E s \in Slots, t \in ResponseTexts : BgTranscribed(s, t)
  \/ \E s \in Slots : BgTranscriptionFailed(s)
  \/ \E m \in BagToSet(toInGame) : IgOnMessageReceived(m)
  \/ \E i \in 1..MaxInjections : InjReadBack(i)
  \/ \E c \in ForeignClips : ForeignClipboardWrite(c)

SpecRecover == InitCapture /\ [][NextRecover]_vars

\* ---- everything the background handles, one thing at a time: the user presses a key
\* or clicks a button of the overlay, or START_RECORDING arrives from outside, only
\* after the recording, the request, the messages and the injection of the action
\* before have ended; STOP_RECORDING and messages nobody handles arrive at any time
Settled ==
  /\ CaptureIdle
  /\ toInGame = EmptyBag /\ toBackground = EmptyBag
  /\ pendingKeys = {}
  /\ \A i \in DOMAIN injections : injections[i].pc \in {"rejected", "mismatch", "done"}

NextCanonical ==
  \/ Settled /\ \E k \in {"record", "accept", "discard"} : PressKey(k)
  \/ Settled /\ IgAcceptClick
  \/ Settled /\ IgCancelClick
  \/ Settled /\ BgOnOutsideMessage(Msg("START_RECORDING", Null))
  \/ \E m \in OutsideMessages \ {Msg("START_RECORDING", Null)} : BgOnOutsideMessage(m)
  \/ BgRecordHotkey
  \/ BgAcceptHotkey
  \/ BgDiscardHotkey
  \/ BgMicrophoneAcquired
  \/ BgMicrophoneRefused
  \/ BgTimerFires
  \/ \E m \in BagToSet(toBackground) : BgOnMessageReceived(m)
  \/ \E s \in Slots : BgDataAvailable(s)
  \/ \E s \in Slots, t \in ResponseTexts : BgTranscribed(s, t)
  \/ \E s \in Slots : BgTranscriptionFailed(s)
  \/ \E m \in BagToSet(toInGame) : IgOnMessageReceived(m)
  \/ \E i \in 1..MaxInjections : InjReadBack(i)
  \/ \E i \in 1..MaxInjections : InjKeyStroke(i)
  \/ \E c \in ForeignClips : ForeignClipboardWrite(c)

SpecCanonical == InitCapture /\ [][NextCanonical]_vars

\* ---- the recording code of in_game.ts on its own, next to the part_002 background,
\* which registers no hotkey: the user presses the record key and holds and releases
\* the push_to_talk key; the event loop of the in-game window runs: a dispatched key
\* event is handled, a pending getUserMedia promise settles, an armed timer fires
InitOwn == bgVersion = BgSendText /\ igVersion = IgLive /\ Constructed

NextOwn ==
  \/ PressKey("record")
  \/ ~held /\ PressKey("ptt_down")
  \/ held /\ PressKey("ptt_up")
  \/ IgRecordHotkey
  \/ IgPushToTalkDown
  \/ IgPushToTalkUp
  \/ \E mode \in {"timed", "ptt"} : IgMicrophoneAcquired(mode)
  \/ \E mode \in {"timed", "ptt"} : IgMicrophoneRefused(mode)
  \/ IgTimerFires
  \/ \E s \in Slots : IgDataAvailable(s)
  \/ \E s \in Slots, t \in ResponseTexts : IgTranscribed(s, t)
  \/ \E s \in Slots : IgTranscriptionFailed(s)

OwnHandlersRun ==
  /\ WF_vars(IgRecordHotkey)
  /\ WF_vars(IgPushToTalkDown)
  /\ WF_vars(IgPushToTalkUp)
  /\ \A mode \in {"timed", "ptt"} :
       WF_vars(IgMicrophoneAcquired(mode) \/ IgMicrophoneRefused(mode))
  /\ WF_vars(IgTimerFires)

SpecOwn == InitOwn /\ [][NextOwn]_vars /\ OwnHandlersRun

\* ---- the part_001 in-game window, which records, shows and pastes on its own, next
\* to the part_002 background
InitChat == bgVersion = BgSendText /\ igVersion = IgChat /\ Constructed

NextChat ==
  \/ CaptureIdle /\ PressKey("record")
  \/ \E k \in {"accept", "discard"} : PressKey(k)
  \/ IgRecordHotkey
  \/ IgMicrophoneAcquired("timed")
  \/ IgMicrophoneRefused("timed")
  \/ IgTimerFires
  \/ \E s \in Slots : IgDataAvailable(s)
  \/ \E s \in Slots, t \in ResponseTexts : IgTranscribed(s, t)
  \/ \E s \in Slots : IgTranscriptionFailed(s)
  \/ IgChatAcceptHotkey
  \/ IgChatDiscardHotkey
  \/ IgChatAcceptClick
  \/ IgChatCancelClick
  \/ \E i \in 1..MaxInjections : ChatReadBack(i)
  \/ \E i \in 1..MaxInjections : ChatKeyStroke(i)
  \/ \E c \in ForeignClips : ForeignClipboardWrite(c)

SpecChat == InitChat /\ [][NextChat]_vars

\* ---- everything that reaches the in-game window: the user presses the keys one at a
\* time, the next one after the recording, the request and the messages of the one
\* before have ended, and clicks the buttons; messages arrive from the background and
\* from outside
NextOverlay ==
  \/ /\ CaptureIdle
     /\ toInGame = EmptyBag /\ toBackground = EmptyBag
     /\ \E k \in {"record", "accept", "discard", "debug", "toggle"} : PressKey(k)
  \/ IgAcceptClick
  \/ IgCancelClick
  \/ IgCloseDebugClick
  \/ BgRecordHotkey
  \/ Len(injections) < MaxAccepts /\ BgAcceptHotkey
  \/ BgDiscardHotkey
  \/ BgDebugHotkey
  \/ BgMicrophoneAcquired
  \/ BgMicrophoneRefused
  \/ BgTimerFires
  \/ \E m \in BagToSet(toBackground) :
       /\ m.id \in {"ACCEPT_CLICKED", "SEND_TEXT"} => Len(injections) < MaxAccepts
       /\ BgOnMessageReceived(m)
  \/ \E s \in Slots : BgDataAvailable(s)
  \/ \E s \in Slots, t \in ResponseTexts : BgTranscribed(s, t)
  \/ \E s \in Slots : BgTranscriptionFailed(s)
  \/ IgAcceptHotkey
  \/ IgDiscardHotkey
  \/ IgRecordHotkey
  \/ IgDebugHotkey
  \/ IgToggleHotkey
  \/ \E m \in BagToSet(toInGame) : IgOnMessageReceived(m)
  \/ \E m \in OutsideMessages : IgOnOutsideMessage(m)
  \/ IgMicrophoneAcquired("timed")
  \/ IgMicrophoneRefused("timed")
  \/ IgTimerFires
  \/ \E s \in Slots : IgDataAvailable(s)
  \/ \E s \in Slots, t \in ResponseTexts : IgTranscribed(s, t)
  \/ \E s \in Slots : IgTranscriptionFailed(s)

SpecOverlay == Init /\ [][NextOverlay]_vars

\* ---- one injection after the other, with its timers: the user accepts the stored
\* text with the accept key of the background window; every timer that was armed fires
InitInject == InitReview /\ bgVersion = BgLive /\ igVersion = IgListener

NextInject ==
  \/ PressKey("accept")
  \/ BgAcceptHotkey
  \/ \E m \in BagToSet(toInGame) : IgOnMessageReceived(m)
  \/ \E i \in 1..MaxInjections : InjReadBack(i)
  \/ \E i \in 1..MaxInjections : InjKeyStroke(i)
  \/ \E c \in ForeignClips : ForeignClipboardWrite(c)

TimersFire ==
  \A i \in 1..MaxInjections : WF_vars(InjReadBack(i)) /\ WF_vars(InjKeyStroke(i))

SpecInject == InitInject /\ [][NextInject]_vars /\ TimersFire

\* ------------------------------------------------------------------ claims

\* a request to start a recording, and a request to stop one, reaches the background
StartRequest ==
  \/ BgRecordHotkey
  \/ BgPushToTalkDown
  \/ BgOnOutsideMessage(Msg("START_RECORDING", Null))

StopRequest ==
  \/ BgPushToTalkUp
  \/ BgTimerFires
  \/ BgOnOutsideMessage(Msg("STOP_RECORDING", Null))

\* C1: in the background controller at most one recorder is in the recording state at
\* any instant, for every interleaving of start and stop requests, and a start request
\* made while a session is active leaves the recorder, the stream and the pending
\* acquisitions as they are.
C1_OneRecorderAtATime ==
  /\ [](Cardinality(Recording(bgSessions)) <= 1)
  /\ [][(StartRequest /\ RecorderActive(bgSessions, bg_mediaRecorder))
          => UNCHANGED <<bg_mediaRecorder, bg_currentStream, bgSessions, bgAcquiring>>]_vars

\* C10: stopRecording() called when no recorder exists, or when the recorder is
\* inactive, stops no recorder and no track, queues no blob and starts no request:
\* recorder, stream, recorder objects, pending acquisitions, canonical text and the
\* messages to the overlay stay as they are.
C10_StopWhenIdleIsNoOp ==
  [][(StopRequest /\ ~RecorderActive(bgSessions, bg_mediaRecorder))
       => UNCHANGED <<bg_mediaRecorder, bg_currentStream, bgSessions, bgAcquiring,
                      bg_lastTranscribedText, toInGame>>]_vars

\* C10 witness: the 5-second timer of a start request is armed while the controller
\* holds no recorder (the microphone was refused, or is still being acquired), and a
\* release event is dispatched as well: both stop calls find nothing to stop.
C10_Witness ==
  /\ bg_mediaRecorder = 0
  /\ bgTimers > 0
  /\ Dispatched("bg", "ptt_up")
  /\ Recording(bgSessions) = {}

\* the calls of one injection that are keystrokes
KeyStrokes(trace) == SelectSeq(trace, LAMBDA c : c.fn = "sendKeyStroke")

\* the injection read the clipboard back and got exactly its text
ReadBackMatched(inj) ==
  \E k \in DOMAIN inj.trace : inj.trace[k] = Call("getFromClipboard", inj.text)

\* C2: no keystroke is sent unless a clipboard read-back made earlier in the same
\* injection returned exactly the text; an injection whose read-back was empty or
\* different ends with zero keystrokes.
C2_NoKeystrokeUnverified ==
  \A i \in DOMAIN injections :
    LET inj == injections[i] IN
    /\ \A k \in DOMAIN inj.trace :
         inj.trace[k].fn = "sendKeyStroke"
           => \E j \in 1..(k - 1) : inj.trace[j] = Call("getFromClipboard", inj.text)
    /\ (\E k \in DOMAIN inj.trace :
          inj.trace[k].fn = "getFromClipboard" /\ inj.trace[k].arg # inj.text)
         => KeyStrokes(inj.trace) = <<>> /\ inj.pc = "mismatch"

\* C2 witness: one injection read back something else and stopped, another one read
\* back its text and has sent a keystroke.
C2_Witness ==
  /\ \E i \in DOMAIN injections :
       /\ injections[i].pc = "mismatch"
       /\ injections[i].trace[Len(injections[i].trace)].arg = <<"x">>
  /\ \E i \in DOMAIN injections :
       ReadBackMatched(injections[i]) /\ KeyStrokes(injections[i].trace) # <<>>

\* every character is whitespace (the empty string included)
OnlyWhitespace(text) == \A k \in DOMAIN text : text[k] = " "

\* C7: an injection of an empty or whitespace-only text returns at once: it writes and
\* reads no clipboard, sends no keystroke and arms no timer.
C7_BlankTextDoesNothing ==
  /\ \A i \in DOMAIN injections :
       OnlyWhitespace(injections[i].text)
         => injections[i].pc = "rejected" /\ injections[i].trace = <<>>
  /\ (\A i \in DOMAIN injections : OnlyWhitespace(injections[i].text)) => clipboard \in ForeignClips

\* C7 witness: injectTextIntoLoL("") and injectTextIntoLoL(" ") were called.
C7_Witness ==
  /\ Len(injections) = 2
  /\ injections[1].text = <<" ">> /\ injections[1].pc = "rejected"
  /\ injections[2].text = <<" ">> /\ injections[2].pc = "rejected"

\* the five calls of a complete injection of text, in the order of the code
FullTrace(text) ==
  << Call("placeOnClipboard", text), Call("getFromClipboard", text),
     Call("sendKeyStroke", <<"Enter">>), Call("sendKeyStroke", <<"Ctrl+V">>),
     Call("sendKeyStroke", <<"Enter">>) >>

IsPrefix(s, t) == Len(s) <= Len(t) /\ \A k \in DOMAIN s : s[k] = t[k]

\* C9: an injection of a non-blank text whose read-back equals the text makes its
\* calls in this order, each once: placeOnClipboard(text), getFromClipboard,
\* sendKeyStroke Enter, Ctrl+V, Enter; when every armed timer fires, all three
\* keystrokes are eventually sent.
C9_SuccessfulInjectionOrder ==
  /\ [](\A i \in DOMAIN injections :
          ReadBackMatched(injections[i])
            => /\ IsPrefix(injections[i].trace, FullTrace(injections[i].text))
               /\ injections[i].pc = "done" <=> injections[i].trace = FullTrace(injections[i].text))
  /\ \A i \in 1..MaxInjections :
       (i \in DOMAIN injections /\ ReadBackMatched(injections[i]))
         ~> (i \in DOMAIN injections /\ injections[i].trace = FullTrace(injections[i].text))

\* C9 witness: two injections ran to their last keystroke.
C9_Witness ==
  /\ Len(injections) = 2
  /\ \A i \in DOMAIN injections :
       injections[i].pc = "done" /\ Len(KeyStrokes(injections[i].trace)) = 3

\* an accept was processed by both controllers and every CLOSE_OVERLAY was delivered
AcceptProcessed ==
  /\ Len(injections) > 0
  /\ ~BagIn(Msg("CLOSE_OVERLAY", Null), toInGame)
  /\ ~Dispatched("ig", "accept")

\* C4: once an accept was processed and its CLOSE_OVERLAY delivered the overlay is
\* hidden, whatever the injection did (rejected, mismatch, still running, done); the
\* background sends CLOSE_OVERLAY in the step that starts the injection.
C4_AcceptHidesOverlay ==
  /\ [](AcceptProcessed => overlayDisplay = "none")
  /\ [][(bgVersion = BgLive /\ Len(injections') > Len(injections))
          => CopiesIn(Msg("CLOSE_OVERLAY", Null), toInGame')
               = CopiesIn(Msg("CLOSE_OVERLAY", Null), toInGame) + 1]_vars

\* C4 witness: the listening overlay is hidden while one injection stopped at the
\* mismatch and another still waits for its read-back.
C4_Witness ==
  /\ igVersion = IgListener
  /\ AcceptProcessed
  /\ overlayDisplay = "none"
  /\ Len(injections) = 2
  /\ injections[1].pc = "mismatch"
  /\ injections[2].pc = "read"

\* the steps in which a controller handles a discard
DiscardStep ==
  \/ BgDiscardHotkey
  \/ IgDiscardHotkey
  \/ IgCancelClick
  \/ BgOnMessageReceived(Msg("DISCARD_CLICKED", Null))

InjectionImplying == { m \in BagToSet(toBackground) : m.id \in {"SEND_TEXT", "ACCEPT_CLICKED"} }

\* C8: a discard while the overlay shows starts no injection, writes no clipboard and
\* sends no SEND_TEXT or ACCEPT_CLICKED; the overlay of in_game.ts hides at once, the
\* background answers with CLOSE_OVERLAY and the listening overlay hides on receipt.
C8_DiscardHidesWithoutInjection ==
  /\ [][(DiscardStep /\ overlayDisplay = "block")
          => /\ UNCHANGED <<injections, clipboard>>
             /\ \A m \in BagToSet(toBackground') :
                  m.id \in {"SEND_TEXT", "ACCEPT_CLICKED"}
                    => CopiesIn(m, toBackground') <= CopiesIn(m, toBackground)]_vars
  /\ [][((IgDiscardHotkey \/ IgCancelClick) /\ igVersion = IgLive /\ overlayDisplay = "block")
          => overlayDisplay' = "none"]_vars
  /\ [][((BgDiscardHotkey \/ BgOnMessageReceived(Msg("DISCARD_CLICKED", Null)))
           /\ bgVersion = BgLive)
          => CopiesIn(Msg("CLOSE_OVERLAY", Null), toInGame')
               = CopiesIn(Msg("CLOSE_OVERLAY", Null), toInGame) + 1]_vars
  /\ [][(IgOnMessageReceived(Msg("CLOSE_OVERLAY", Null)) /\ igVersion = IgListener)
          => overlayDisplay' = "none"]_vars

\* C8 witness: the listening overlay went from shown to hidden and no injection was
\* started, so a discard and nothing else closed it; the clipboard is as it was.
C8_Witness ==
  /\ igVersion = IgListener
  /\ overlayDisplay = "none"
  /\ injections = <<>>
  /\ clipboard = <<>>
  /\ InjectionImplying = {}
  /\ toInGame = EmptyBag
  /\ pendingKeys = {}

\* the steps in which a transcription request fails
TranscriptionFails ==
  \/ \E s \in Slots : BgTranscriptionFailed(s)
  \/ \E s \in Slots : IgTranscriptionFailed(s)

ResultsInFlight ==
  LET rs == { m \in BagToSet(toInGame) : m.id = "TRANSCRIPTION_RESULT" } IN
  BagCardinality([m \in rs |-> CopiesIn(m, toInGame)])

\* C6: a transcription request that fails sends no TRANSCRIPTION_RESULT, stores no text
\* and leaves the overlay as it is; a result is sent only by a request that succeeded,
\* and the overlay goes from hidden to shown only for a result.
C6_FailedRequestShowsNothing ==
  /\ [][TranscriptionFails
          => UNCHANGED <<toInGame, overlayVars, bg_lastTranscribedText, injectVars>>]_vars
  /\ [][ResultsInFlight' > ResultsInFlight
          => \E s \in Slots, t \in ResponseTexts : BgTranscribed(s, t)]_vars
  /\ [][(overlayDisplay = "none" /\ overlayDisplay' = "block")
          => \/ \E s \in Slots, t \in ResponseTexts : IgTranscribed(s, t)
             \/ \E m \in BagToSet(toInGame) :
                  m.id = "TRANSCRIPTION_RESULT" /\ IgOnMessageReceived(m)]_vars

\* C6 witness: the recorder of in_game.ts stopped, its request ended, and no text was
\* ever stored: the request failed, and the overlay is hidden.
C6_Witness ==
  /\ igVersion = IgLive
  /\ ig_mediaRecorder # 0
  /\ igSessions[ig_mediaRecorder] = StoppedRecorder
  /\ \A i \in Slots : igSessions[i].fetch = "none"
  /\ ig_lastTranscribedText = <<>>
  /\ overlayDisplay = "none"

\* the transcription stored last: by the coordinator in background.ts, by the overlay
\* in in_game.ts (the part_002 coordinator stores none)
LatestTranscription ==
  IF bgVersion = BgLive THEN bg_lastTranscribedText ELSE OrEmpty(ig_lastTranscribedText)

\* C3: the text handed to injectTextIntoLoL when an accept is processed is the
\* transcription stored last at that moment, whatever text the overlay sent.
C3_AcceptInjectsLatest ==
  [][Len(injections') > Len(injections)
       => injections'[Len(injections')].text = LatestTranscription]_vars

\* the steps in which a controller handles an accept or a discard of the user
AcceptOrDiscard ==
  \/ BgAcceptHotkey
  \/ BgDiscardHotkey
  \/ IgAcceptHotkey
  \/ IgDiscardHotkey
  \/ IgAcceptClick
  \/ IgCancelClick

\* C5: an accept or discard hotkey or click handled while the overlay is hidden starts
\* no injection, writes no clipboard and sends no message.
C5_IgnoredWhileHidden ==
  [][(AcceptOrDiscard /\ overlayDisplay # "block")
       => UNCHANGED <<injections, clipboard, toInGame, toBackground>>]_vars

\* C11: a push_to_talk 'up' event that finds a recorder recording stops it and queues
\* one blob, an 'up' event that finds none changes nothing, and once the key was
\* released, the release handled and every acquisition resolved, no held session records.
C11_HeldSessionStoppedOnce ==
  /\ [][BgPushToTalkUp
          => IF RecorderActive(bgSessions, bg_mediaRecorder)
             THEN bgSessions' = [bgSessions EXCEPT
                    ![bg_mediaRecorder] = [rec |-> "inactive", live |-> FALSE, fetch |-> "blob"]]
             ELSE UNCHANGED <<bg_mediaRecorder, bg_currentStream, bgSessions>>]_vars
  /\ []((~held /\ pendingKeys = {} /\ bgAcquiring = 0) => Recording(bgSessions) = {})

\* C12: a blob is queued only in the step that stops a recording recorder, one per
\* recorder, and every timed session that records has a 5-second timer still armed
\* for it, so that it emits its blob when the timer fires.
C12_OneBlobPerSession ==
  /\ [][\A s \in Slots :
          (bgSessions'[s].fetch = "blob" /\ bgSessions[s].fetch # "blob")
            => bgSessions[s].rec = "recording" /\ bgSessions'[s].rec = "inactive"]_vars
  /\ [](Cardinality(Recording(bgSessions)) <= bgTimers)

\* the steps in which the in-game controller stops its recorder if it is active
IgStopRequest ==
  \/ IgPushToTalkUp
  \/ IgTimerFires

\* C13: a stop of an active session stops the recorder and every track of its
\* stream, and leaves the controller with neither a stream nor a recorder, in the
\* background controller and in the in-game controller.
C13_StopReleasesMicrophone ==
  /\ [][(StopRequest /\ RecorderActive(bgSessions, bg_mediaRecorder))
          => /\ ~bgSessions'[bg_mediaRecorder].live
             /\ bg_mediaRecorder' = 0
             /\ bg_currentStream' = 0]_vars
  /\ [][(IgStopRequest /\ RecorderActive(igSessions, ig_mediaRecorder))
          => /\ ~igSessions'[ig_mediaRecorder].live
             /\ ig_mediaRecorder' = 0]_vars

\* C14: counting the recorders of both controllers, at most one records at any time.
C14_OneRecorderSystemWide ==
  Cardinality(Recording(bgSessions)) + Cardinality(Recording(igSessions)) <= 1

\* the steps in which an injection ends without a keystroke
InjectionFails ==
  \/ Len(injections') > Len(injections) /\ injections'[Len(injections')].pc = "rejected"
  \/ \E i \in DOMAIN injections : InjReadBack(i) /\ injections'[i].pc = "mismatch"

\* C15: a refused microphone, a failed request, a blank text and a clipboard mismatch
\* leave the recorder and the stream of the background controller as they were; the
\* recorder field is set only while that recorder records, so a start request is turned
\* down only when a recorder really records; and an accept or discard event that was
\* dispatched can be handled whatever failed before.
C15_FailuresDoNotWedge ==
  /\ [][BgMicrophoneRefused
          => UNCHANGED <<bg_mediaRecorder, bg_currentStream, bgSessions>>]_vars
  /\ [][(\E s \in Slots : BgTranscriptionFailed(s))
          => /\ UNCHANGED <<bg_mediaRecorder, bg_currentStream>>
             /\ Recording(bgSessions') = Recording(bgSessions)]_vars
  /\ [][InjectionFails => UNCHANGED captureVars]_vars
  /\ [](bg_mediaRecorder # 0 => bgSessions[bg_mediaRecorder].rec = "recording")
  /\ [][BgRecordHotkey
          => \/ bgAcquiring' = bgAcquiring + 1
             \/ bg_mediaRecorder \in Recording(bgSessions)]_vars
  /\ []((Dispatched("bg", "accept") /\ CanSend(toInGame, 1) /\ Len(injections) < MaxInjections)
          => ENABLED BgAcceptHotkey)
  /\ []((Dispatched("bg", "discard") /\ CanSend(toInGame, 1)) => ENABLED BgDiscardHotkey)

\* C15 witness: one injection was rejected as blank, a later one stopped at the
\* clipboard mismatch, and after them a recorder records again.
C15_Witness ==
  /\ Len(injections) = 2
  /\ injections[1].pc = "rejected"
  /\ injections[2].pc = "mismatch"
  /\ bg_mediaRecorder \in Recording(bgSessions)

\* C16: every clipboard write and every keystroke is made by the background
\* controller; the in-game controller starts no injection of its own.
C16_OnlyBackgroundInjects ==
  \A i \in DOMAIN injections : injections[i].by = "background"

\* the steps in which the in-game controller handles an accept, and a discard, of the user
OverlayAccept ==
  \/ IgAcceptHotkey
  \/ IgAcceptClick

OverlayDiscard ==
  \/ IgDiscardHotkey
  \/ IgCancelClick

\* C17: an accept or a discard handled by the in-game controller while the overlay
\* shows hides the overlay in that step and sends the background one message; the
\* message of an accept carries the text on display.
C17_OverlayHidesAndNotifies ==
  /\ [][((OverlayAccept \/ OverlayDiscard) /\ overlayDisplay = "block")
          => /\ overlayDisplay' = "none"
             /\ BagCardinality(toBackground') = BagCardinality(toBackground) + 1]_vars
  /\ [][(OverlayAccept /\ overlayDisplay = "block")
          => \E m \in BagToSet(toBackground') :
               /\ m.text = textContent
               /\ CopiesIn(m, toBackground') = CopiesIn(m, toBackground) + 1]_vars

\* the steps that handle a delivered transcription result
ResultHandled ==
  \/ \E s \in Slots, t \in ResponseTexts : IgTranscribed(s, t)
  \/ \E m \in BagToSet(toInGame) : m.id = "TRANSCRIPTION_RESULT" /\ IgOnMessageReceived(m)

\* the steps that handle an accept, a discard or a CLOSE_OVERLAY in the in-game window
CloseHandled ==
  \/ OverlayAccept
  \/ OverlayDiscard
  \/ IgOnMessageReceived(Msg("CLOSE_OVERLAY", Null))

\* C18: the overlay starts hidden, is shown only by a step that handles a transcription
\* result and hidden only by a step that handles an accept, a discard or CLOSE_OVERLAY;
\* record, debug and toggle hotkeys, recorder events and other messages leave it alone.
C18_OverlayTransitions ==
  /\ overlayDisplay = "none"
  /\ [](overlayDisplay \in {"none", "block"})
  /\ [][(overlayDisplay = "none" /\ overlayDisplay' = "block") => ResultHandled]_vars
  /\ [][(overlayDisplay = "block" /\ overlayDisplay' = "none") => CloseHandled]_vars
  /\ [][(\/ IgDebugHotkey \/ IgToggleHotkey \/ IgCloseDebugClick \/ IgRecordHotkey
         \/ IgTimerFires \/ BgDebugHotkey
         \/ \E m \in OutsideMessages : IgOnOutsideMessage(m)
         \/ IgOnMessageReceived(Msg("SHOW_DEBUG", Null)))
          => UNCHANGED overlayDisplay]_vars

\* C18 witness: the overlay showed a text and is hidden again while the debug overlay
\* is open and the window was minimized with the toggle key.
C18_Witness ==
  /\ overlayDisplay = "none"
  /\ textContent # <<>>
  /\ debugDisplay = "block"
  /\ windowState = "minimized"

\* the request of session s ends in this step
RequestEnds(s) == bgSessions[s].fetch = "inflight" /\ bgSessions'[s].fetch # "inflight"

\* C19: every successful response overwrites the stored text with its own text, whatever
\* was stored and whichever session it belongs to, and sends one TRANSCRIPTION_RESULT
\* with that text; the stored text changes in no other step, so the response that
\* completes last decides it.
C19_LastResponseWins ==
  /\ [][\A s \in Slots, t \in ResponseTexts : BgTranscribed(s, t) =>
          /\ bg_lastTranscribedText' = OrEmpty(t)
          /\ toInGame' = Send(toInGame, Msg("TRANSCRIPTION_RESULT", OrEmpty(t)))]_vars
  /\ [][\A s \in Slots : RequestEnds(s) =>
          \/ UNCHANGED <<bg_lastTranscribedText, toInGame>>
          \/ toInGame' = Send(toInGame, Msg("TRANSCRIPTION_RESULT", bg_lastTranscribedText'))]_vars
  /\ [][bg_lastTranscribedText' # bg_lastTranscribedText =>
          \E s \in Slots : RequestEnds(s)]_vars

\* C19 witness: a response has replaced an earlier stored text while the request of
\* another session is still in flight.
C19_Witness ==
  /\ bg_lastTranscribedText = <<"b">>
  /\ Msg("TRANSCRIPTION_RESULT", <<"a">>) \in BagToSet(toInGame)
  /\ Msg("TRANSCRIPTION_RESULT", <<"b">>) \in BagToSet(toInGame)
  /\ \E s \in Slots : bgSessions[s].fetch = "inflight"

Blobs == { s \in Slots : bgSessions[s].fetch = "blob" }
Requests == { s \in Slots : bgSessions[s].fetch = "inflight" }

\* C20: a request starts only for a waiting blob and takes that one blob and no other;
\* every waiting blob can be sent; a request that fails leaves neither a request nor a
\* blob behind, and no request ever becomes a blob again.
C20_OneRequestPerBlob ==
  /\ [][\A s \in Slots : (s \notin Requests /\ s \in Requests') =>
          /\ s \in Blobs
          /\ Blobs' = Blobs \ {s}
          /\ Requests' = Requests \cup {s}]_vars
  /\ [](\A s \in Blobs : ENABLED BgDataAvailable(s))
  /\ [][\A s \in Slots : BgTranscriptionFailed(s) =>
          /\ bgSessions'[s] = FreeSlot
          /\ Requests' = Requests \ {s}
          /\ Blobs' = Blobs]_vars
  /\ [][\A s \in Requests : s \notin Blobs']_vars

\* C20 witness: two blobs were emitted; the request for one is in flight while the
\* other still waits for a request of its own.
C20_Witness ==
  /\ Requests # {}
  /\ Blobs # {}

\* C21: a message whose id the receiving listener has no case for changes nothing in
\* the receiver and makes it send, write and type nothing; and every message in flight
\* between the controllers has an id the listener of its receiver has a case for.
C21_EveryMessageHandled ==
  /\ [][\A m \in BagToSet(toBackground) :
          (BgOnMessageReceived(m) /\ m.id \notin BgHandles(bgVersion))
            => UNCHANGED <<captureVars, bg_lastTranscribedText, toInGame, injectVars>>]_vars
  /\ [][\A m \in BagToSet(toInGame) :
          (IgOnMessageReceived(m) /\ m.id \notin IgHandles(igVersion))
            => UNCHANGED <<overlayVars, igCaptureVars, toBackground, injectVars>>]_vars
  /\ [](\A m \in BagToSet(toBackground) : m.id \in BgHandles(bgVersion))
  /\ [](\A m \in BagToSet(toInGame) : m.id \in IgHandles(igVersion))

\* C22: the step in which getUserMedia is refused ends the pending start and leaves the
\* recorder, the stream and every recorder object as they were; a recorder object
\* appears only in a step where an acquisition succeeds, and a blob or a request only
\* for a recorder that recorded, so a refused start has no session, blob or request.
C22_RefusedStartLeavesNoSession ==
  /\ [][BgMicrophoneRefused
          => /\ UNCHANGED <<bg_mediaRecorder, bg_currentStream, bgSessions,
                            bg_lastTranscribedText, toInGame>>
             /\ bgAcquiring' = bgAcquiring - 1]_vars
  /\ [][\A s \in Slots :
          (bgSessions[s] = FreeSlot /\ bgSessions'[s] # FreeSlot)
            => /\ bgSessions'[s] = NewRecorder
               /\ bg_mediaRecorder' = s
               /\ bgAcquiring' = bgAcquiring - 1]_vars
  /\ [](\A s \in Slots : bgSessions[s].fetch # "none" => bgSessions[s].rec = "inactive")

\* C22 witness: every timed start that was made is still within its five seconds, no
\* acquisition is pending and no recorder object exists: each start was refused.
C22_Witness ==
  /\ bgTimers = MaxTimers
  /\ bgAcquiring = 0
  /\ pendingKeys = {}
  /\ bg_mediaRecorder = 0
  /\ bg_currentStream = 0
  /\ \A s \in Slots : bgSessions[s] = FreeSlot
  /\ bg_lastTranscribedText = <<>>
  /\ toInGame = EmptyBag

\* the steps of a record start: the hotkey handler and the resumption after getUserMedia
RecordStartStep ==
  \/ BgRecordHotkey
  \/ BgMicrophoneAcquired
  \/ BgMicrophoneRefused
  \/ IgRecordHotkey
  \/ IgMicrophoneAcquired("timed")
  \/ IgMicrophoneRefused("timed")

C24_TimerStopsOwnSession ==
  /\ [][(BgTimerFires /\ RecorderActive(bgSessions, bg_mediaRecorder)) => bgTimers = 1]_vars
  /\ [][(BgTimerFires /\ held /\ pendingKeys = {})
          => ~RecorderActive(bgSessions, bg_mediaRecorder)]_vars

\* C25: a recorder of the background controller that records while the push_to_talk
\* key is not held is eventually stopped by the controller itself: by the timer or by
\* the release event that is still to be handled.
C25_EverySessionStops ==
  \A s \in Slots :
    (bgSessions[s].rec = "recording" /\ ~held) ~> (bgSessions[s].rec # "recording")

\* C26: in the background controller every stream whose tracks are live is the one in
\* currentStream and every recorder that records is the one in mediaRecorder, so at most
\* one stream is open and a later stop releases it.
C26_EveryStreamReferenced ==
  \A s \in Slots :
    /\ bgSessions[s].live => bg_currentStream = s
    /\ bgSessions[s].rec = "recording" => bg_mediaRecorder = s

\* the injection has a timer armed: it is between its clipboard write and its last step
Running(inj) == inj.pc \in {"read", "enter1", "paste", "enter2"}

\* the injection has sent a keystroke and has more to send
Typing(inj) == inj.pc \in {"paste", "enter2"}

\* C27: while two injections run at once, at most one of them is between its first and
\* its last keystroke, and a Ctrl+V is sent only while the clipboard holds the text of
\* the injection that sends it.
C27_OverlappingInjectionsApart ==
  /\ [](\A i, j \in DOMAIN injections :
          (i # j /\ Typing(injections[i])) => ~Typing(injections[j]))
  /\ [][\A i \in DOMAIN injections :
          (/\ InjKeyStroke(i)
           /\ injections[i].pc = "paste"
           /\ \E j \in DOMAIN injections : j # i /\ Running(injections[j]))
            => clipboard = injections[i].text]_vars

\* C28: whenever no message is in flight between the two controllers and the overlay
\* shows, the text on display is the text the background has stored.
C28_DisplayEqualsCanonical ==
  (toInGame = EmptyBag /\ toBackground = EmptyBag /\ overlayDisplay = "block")
    => textContent = bg_lastTranscribedText

\* an accept or a discard was made and the CLOSE_OVERLAY it causes has not reached the
\* overlay yet: the key event or the click message waits for the background, or the
\* CLOSE_OVERLAY is in flight
CloseUnderWay ==
  \/ Dispatched("bg", "accept")
  \/ Dispatched("bg", "discard")
  \/ BagIn(Msg("ACCEPT_CLICKED", Null), toBackground)
  \/ BagIn(Msg("DISCARD_CLICKED", Null), toBackground)
  \/ BagIn(Msg("CLOSE_OVERLAY", Null), toInGame)

\* C29: the listening overlay shows a delivered result only when no accept or discard
\* made before is still under way, so that no CLOSE_OVERLAY of an earlier accept or
\* discard arrives after the result and hides it.
C29_CloseNeverHidesNewerResult ==
  [][\A m \in BagToSet(toInGame) :
       (m.id = "TRANSCRIPTION_RESULT" /\ IgOnMessageReceived(m) /\ igVersion = IgListener)
         => ~CloseUnderWay]_vars

\* C30: the text the background stores changes only in the step that handles a
\* successful transcription response; an accept, a discard, a start or stop request, a
\* timer, a failed request, a step of an injection and a received message leave it as
\* it is.
C30_CanonicalOnlySetByResponse ==
  /\ [][bg_lastTranscribedText' # bg_lastTranscribedText
          => \E s \in Slots, t \in ResponseTexts : BgTranscribed(s, t)]_vars
  /\ [][(\/ BgAcceptHotkey \/ BgDiscardHotkey
         \/ StartRequest \/ StopRequest
         \/ BgMicrophoneAcquired \/ BgMicrophoneRefused
         \/ \E s \in Slots : BgTranscriptionFailed(s)
         \/ \E i \in DOMAIN injections : InjReadBack(i) \/ InjKeyStroke(i)
         \/ \E m \in BagToSet(toBackground) : BgOnMessageReceived(m)
         \/ \E m \in OutsideMessages : BgOnOutsideMessage(m))
          => UNCHANGED bg_lastTranscribedText]_vars

\* C30 witness: an accept was processed and its injection typed the last keystroke, a
\* discard came after it, and the text is still stored.
C30_Witness ==
  /\ Len(injections) = 2
  /\ injections[1].pc = "done"
  /\ injections[2].pc = "mismatch"
  /\ bg_lastTranscribedText = injections[1].text
  /\ overlayDisplay = "none"
  /\ toInGame = EmptyBag /\ toBackground = EmptyBag /\ pendingKeys = {}

\* C31: where every session is a timed one (the only 'down' events are those turned
\* away while a timed session records), a push_to_talk 'up' event and a STOP_RECORDING
\* message end no session: the recorders that record keep recording.
C31_ReleaseSparesTimedSession ==
  [][(BgPushToTalkUp \/ BgOnOutsideMessage(Msg("STOP_RECORDING", Null)))
       => Recording(bgSessions') = Recording(bgSessions)]_vars

\* C32: a recorder of the in-game controller that records while the push_to_talk key
\* is not held is eventually stopped by the controller itself, also when a later start
\* has replaced it in the recorder field.
C32_EveryOwnRecorderStops ==
  \A s \in Slots :
    (igSessions[s].rec = "recording" /\ ~held) ~> (igSessions[s].rec # "recording")

\* the listening overlay handles a CLOSE_OVERLAY
CloseReceived == igVersion = IgListener /\ IgOnMessageReceived(Msg("CLOSE_OVERLAY", Null))

\* C33: a CLOSE_OVERLAY handled while the overlay is hidden leaves it hidden and the
\* text as it is; every CLOSE_OVERLAY leaves the overlay and the window hidden and
\* the text as it is, and one handled in that state changes nothing, so two in a row
\* do what one does.
C33_CloseOverlayIdempotent ==
  /\ [][(CloseReceived /\ overlayDisplay = "none")
          => overlayDisplay' = "none" /\ UNCHANGED textContent]_vars
  /\ [][CloseReceived
          => /\ overlayDisplay' = "none"
             /\ windowState' = "hidden"
             /\ UNCHANGED <<textContent, ig_lastTranscribedText, debugDisplay>>]_vars
  /\ [][(CloseReceived /\ overlayDisplay = "none" /\ windowState = "hidden")
          => UNCHANGED overlayVars]_vars

\* C33 witness: two accepts were processed and the CLOSE_OVERLAY of each was delivered,
\* the second one to the overlay the first had hidden; the text is still there.
C33_Witness ==
  /\ igVersion = IgListener
  /\ Len(injections) = 2
  /\ toInGame = EmptyBag
  /\ pendingKeys = {}
  /\ overlayDisplay = "none"
  /\ windowState = "hidden"
  /\ textContent # <<>>

\* Both processes from the load of their scripts on: only calls of instance() happen,
\* the first of each process being the one in the script's last line.
InitSingleton ==
  /\ \E p \in Pairs \cup {<<BgLive, IgLive>>, <<BgSendText, IgChat>>} :
       bgVersion = p[1] /\ igVersion = p[2]
  /\ Fields
  /\ Unloaded

NextSingleton == BgInstance \/ IgInstance

SpecSingleton == InitSingleton /\ [][NextSingleton]_vars

\* the calls of instance() so far constructed one object, returned it every time and
\* registered each listener of the constructor once
OneController(instance, constructions, listeners, returned, registers) ==
  /\ constructions = (IF returned = <<>> THEN 0 ELSE 1)
  /\ \A i \in 1..Len(returned) : returned[i] = instance /\ instance # 0
  /\ \A l \in ListenerNames :
       listeners[l] = (IF returned # <<>> /\ l \in registers THEN 1 ELSE 0)

\* C34: in each process, after any number of calls of instance() the controller was
\* constructed once, every call returned that same object, and each hotkey, hold,
\* message and click listener its constructor registers is registered exactly once.
C34_OneControllerPerProcess ==
  /\ OneController(bg_instance, bgConstructions, bgListeners, bgReturned,
                   BgRegisters(bgVersion))
  /\ OneController(ig_instance, igConstructions, igListeners, igReturned,
                   IgRegisters(igVersion))

\* C34 witness: instance() was called several times in each process of the live pair;
\* one object was constructed in each and the hold listener of each is registered once.
C34_Witness ==
  /\ bgVersion = BgLive /\ igVersion = IgLive
  /\ Len(bgReturned) >= 3 /\ Len(igReturned) >= 3
  /\ bgConstructions = 1 /\ igConstructions = 1
  /\ bgListeners[HoldListener] = 1 /\ igListeners[HoldListener] = 1

====
